---- MODULE Spec2Model ----
(***************************************************************************)
(* A model of the deno-mcp server core: the permission translator          *)
(* (buildPermissionArgs), the argument validator (validateArguments), the  *)
(* process runner (executeCommand), the tool handlers built on it and the  *)
(* tools/call dispatcher.                                                  *)
(*                                                                         *)
(* Specifications:                                                         *)
(*   SpecPerm      buildPermissionArgs applied to bounded token lists      *)
(*   SpecValidate  validateArguments applied to bounded argument objects   *)
(*   Spec          the three front ends, the dispatcher, the handlers and  *)
(*                 the process runner                                      *)
(*   SpecLive      the stdio server and the runner, with the fairness the  *)
(*                 Node event loop provides to expired timers              *)
(*   SpecBuild     the tool functions that take permissions, applied to    *)
(*                 bounded option objects                                  *)
(*   SpecHttp      the session layer of the HTTP server; SpecHttpLive adds *)
(*                 its dispatches and the fairness of its timers           *)
(*   SpecWrapper   the wrapper's MCP endpoint and the runner;              *)
(*                 SpecWrapperFair adds the fairness of the event loop     *)
(*   SpecStdio     the stdio server with its signal handlers               *)
(*   SpecWrapperLive  the wrapper's MCP child, its restart and shutdown    *)
(***************************************************************************)
EXTENDS Integers, Sequences, FiniteSets, TLC

VARIABLES
    permIn,     \* buildPermissionArgs: the token list given
    permOut,    \* buildPermissionArgs(permIn), or None before the call
    permOut2,   \* buildPermissionArgs(permOut), or None before the call
    vTool,      \* validateArguments: the tool whose inputSchema is used
    vArgs,      \* validateArguments: the argument object, as its entries
    vOutcome,   \* NoOutcome, HandlerInvoked (validation passed), or the McpError thrown
    bTool,      \* a tool function that builds an argument vector (denoRun, ...)
    bOptions,   \* the options object the function is called with
    bCommand,   \* what the function did: NoValue, a throw, or its executeCommand call
    calls,      \* executeCommand: the state of each invocation, by number
    ncalls,     \* executeCommand: invocations of the latest request that made any
    inflight,   \* the request being dispatched, or NoRequest
    last,       \* the record of the dispatch that finished last, or NoRecord
    prevError,  \* the record of the dispatch before it, if it ended in InternalError
    nrequests,  \* requests received so far
    transports, \* the HTTP server's session map, as the set of its keys
    stdioProc,  \* the stdio server process (src/src/index.ts)
    httpProc,   \* the HTTP server process (src/unnamed/part_001)
    wrapperProc \* the wrapper process and its MCP child (src/unnamed/part_004)

permVars == <<permIn, permOut, permOut2>>
validateVars == <<vTool, vArgs, vOutcome>>
buildVars == <<bTool, bOptions, bCommand>>

runnerVars == <<calls, ncalls>>
dispatchVars == <<inflight, last, prevError, nrequests, transports>>
lifeVars == <<stdioProc, httpProc, wrapperProc>>

vars == <<permIn, permOut, permOut2, vTool, vArgs, vOutcome,
          bTool, bOptions, bCommand,
          calls, ncalls, inflight, last, prevError, nrequests, transports,
          stdioProc, httpProc, wrapperProc>>

None == "none"

(***************************************************************************)
(* Bounds of the model.                                                    *)
(***************************************************************************)
MaxPermLen == 3     \* longest permission token list translated
MaxArgEntries == 2  \* most keys in an argument object given to validateArguments
MaxCalls == 2       \* most executeCommand invocations in one behaviour
MaxChunks == 1      \* most data events on each output stream of a child
MaxRequests == 2    \* most requests dispatched in one behaviour
MaxStarts == 3      \* most calls of startMcpServer in one behaviour

(***************************************************************************)
(* Strings.  A token is a TLA+ string; startsWith is computed on its       *)
(* characters.                                                             *)
(***************************************************************************)
StartsWith(s, p) == Len(s) >= Len(p) /\ SubSeq(s, 1, Len(p)) = p

\* s.includes(sub)
Contains(s, sub) ==
    \E i \in 1..(Len(s) - Len(sub) + 1) : SubSeq(s, i, i + Len(sub) - 1) = sub

Whitespace == {" ", "\n", "\t", "\r"}

RECURSIVE TrimLeft(_)
TrimLeft(s) ==
    IF Len(s) > 0 /\ SubSeq(s, 1, 1) \in Whitespace
        THEN TrimLeft(SubSeq(s, 2, Len(s)))
    ELSE s

RECURSIVE TrimRight(_)
TrimRight(s) ==
    IF Len(s) > 0 /\ SubSeq(s, Len(s), Len(s)) \in Whitespace
        THEN TrimRight(SubSeq(s, 1, Len(s) - 1))
    ELSE s

\* s.trim()
Trim(s) == TrimLeft(TrimRight(s))

RECURSIVE SeqsUpTo(_, _)
SeqsUpTo(S, n) ==
    IF n = 0 THEN {<<>>}
    ELSE LET shorter == SeqsUpTo(S, n - 1)
         IN  shorter \cup {Append(s, x) : s \in shorter, x \in S}

(***************************************************************************)
(* buildPermissionArgs (src/src/utils/command.ts:132-176)                  *)
(***************************************************************************)
\* The tokens the lists are drawn from: the nine shorthands, literal flags,
\* and tokens that are neither (single dash, empty, wrong case, no dashes).
PermissionTokens ==
    {"read", "write", "net", "env", "run", "ffi", "hrtime", "sys", "all",
     "--allow-read", "--allow-all", "--unstable", "--",
     "-A", "allow-net", "Read", ""}

\* A mapping that loses the hrtime case of the switch.
PermissionFlagNoHrtime(permission) ==
    IF StartsWith(permission, "--") THEN permission
    ELSE CASE permission = "read"   -> "--allow-read"
           [] permission = "write"  -> "--allow-write"
           [] permission = "net"    -> "--allow-net"
           [] permission = "env"    -> "--allow-env"
           [] permission = "run"    -> "--allow-run"
           [] permission = "ffi"    -> "--allow-ffi"
           [] permission = "sys"    -> "--allow-sys"
           [] permission = "all"    -> "--allow-all"
           [] OTHER                 -> permission

\* The body of the for loop: what is pushed for one token.
PermissionFlag(permission) ==
    IF StartsWith(permission, "--") THEN permission
    ELSE CASE permission = "read"   -> "--allow-read"
           [] permission = "write"  -> "--allow-write"
           [] permission = "net"    -> "--allow-net"
           [] permission = "env"    -> "--allow-env"
           [] permission = "run"    -> "--allow-run"
           [] permission = "ffi"    -> "--allow-ffi"
           [] permission = "hrtime" -> "--allow-hrtime"
           [] permission = "sys"    -> "--allow-sys"
           [] permission = "all"    -> "--allow-all"
           [] OTHER                 -> permission

RECURSIVE PushPermissions(_, _)
PushPermissions(permissionArgs, permissions) ==
    IF permissions = <<>> THEN permissionArgs
    ELSE PushPermissions(Append(permissionArgs, PermissionFlag(Head(permissions))),
                         Tail(permissions))

buildPermissionArgs(permissions) == PushPermissions(<<>>, permissions)

(***************************************************************************)
(* JSON values, argument objects and the tool catalogue                    *)
(* (src/src/types/index.ts:225-495, TOOL_SCHEMAS)                          *)
(***************************************************************************)
\* A JSON value is modelled by its kind and, for an array, the kind of its
\* items; validation reads nothing else of it.
JsonValues ==
    {[kind |-> k, items |-> None] : k \in {"string", "number", "boolean", "object", "null"}}
    \cup {[kind |-> "array", items |-> i] : i \in {"string", "number"}}

\* typeof value
TypeOf(value) ==
    CASE value.kind = "string"  -> "string"
      [] value.kind = "number"  -> "number"
      [] value.kind = "boolean" -> "boolean"
      [] OTHER                  -> "object"

\* Array.isArray(value)
IsArray(value) == value.kind = "array"

\* The keys argument objects are built from: declared by some schema
\* (script, port, watch, permissions, envVars) or by none (timeout).
ArgKeys == {"script", "port", "watch", "permissions", "envVars", "timeout"}

\* An argument object is the sequence of its own entries <<key, value>>, in
\* insertion order, with distinct keys (what JSON.parse produces).
DistinctKeys(entries) ==
    \A i, j \in 1..Len(entries) : i # j => entries[i][1] # entries[j][1]

ArgObjects ==
    {entries \in SeqsUpTo(ArgKeys \X JsonValues, MaxArgEntries) : DistinctKeys(entries)}

\* key in args
HasKey(args, key) == \E i \in 1..Len(args) : args[i][1] = key

\* args[key]
ValueOf(args, key) == args[CHOOSE i \in 1..Len(args) : args[i][1] = key][2]

\* inputSchema of the tools: properties (key -> declared type) and required.
\* hasProperties and hasRequired say whether the schema has these members.
ToolSchema(name) ==
    CASE name = "deno_run" ->
           [hasProperties |-> TRUE,
            properties |-> [script |-> "string", args |-> "array", permissions |-> "array",
                            watch |-> "boolean", workingDirectory |-> "string",
                            envVars |-> "object"],
            hasRequired |-> TRUE, required |-> <<"script">>]
      [] name = "deno_serve" ->
           [hasProperties |-> TRUE,
            properties |-> [script |-> "string", port |-> "number", host |-> "string",
                            permissions |-> "array", workingDirectory |-> "string"],
            hasRequired |-> TRUE, required |-> <<"script">>]
      [] name = "deno_version" ->
           [hasProperties |-> TRUE, properties |-> <<>>,
            hasRequired |-> FALSE, required |-> <<>>]

ToolNames == {"deno_run", "deno_serve", "deno_version"}

(***************************************************************************)
(* validateArguments (src/src/index.ts:57-107; the same function is in     *)
(* src/unnamed/part_001:46-96 and src/unnamed/part_004:102-152)            *)
(***************************************************************************)
McpError(code, message) == [kind |-> "McpError", code |-> code, message |-> message]

\* The TypeError of the in operator applied to a primitive.
TypeError(message) == [kind |-> "TypeError", message |-> message]

\* An argument object with the given entries.
JsonObject(entries) == [kind |-> "object", entries |-> entries]

\* A string given where the argument object is expected.
JsonString(text) == [kind |-> "string", text |-> text]

\* Object.entries(args): the own entries of an object; of a string, its
\* characters under their indices.
ObjectEntries(args) ==
    IF args.kind = "object" THEN args.entries
    ELSE [i \in 1..Len(args.text) |-> <<ToString(i - 1), SubSeq(args.text, i, i)>>]

Valid == [kind |-> "valid"]

NoOutcome == [kind |-> "none"]

HandlerInvoked == [kind |-> "handler"]

\* for (const required of schema.required) if (!(required in args)) throw
RECURSIVE FirstMissing(_, _)
FirstMissing(required, args) ==
    IF required = <<>> THEN None
    ELSE IF ~HasKey(args, Head(required)) THEN Head(required)
    ELSE FirstMissing(Tail(required), args)

TypeMismatch(key, expected) ==
    McpError("InvalidParams",
             "Parameter " \o key \o " must be "
                 \o (IF expected = "array" THEN "an " ELSE "a ") \o expected)

\* A loop over the entries that stops at the first undeclared key (break for continue).
RECURSIVE CheckEntriesBreak(_, _)
CheckEntriesBreak(entries, properties) ==
    IF entries = <<>> THEN Valid
    ELSE LET key   == Head(entries)[1]
             value == Head(entries)[2]
         IN  IF key \notin DOMAIN properties THEN Valid
             ELSE LET type == properties[key]
                  IN  IF type = "string" /\ TypeOf(value) # "string"
                          THEN TypeMismatch(key, "string")
                      ELSE IF type = "number" /\ TypeOf(value) # "number"
                          THEN TypeMismatch(key, "number")
                      ELSE IF type = "boolean" /\ TypeOf(value) # "boolean"
                          THEN TypeMismatch(key, "boolean")
                      ELSE IF type = "array" /\ ~IsArray(value)
                          THEN TypeMismatch(key, "array")
                      ELSE CheckEntriesBreak(Tail(entries), properties)

\* for (const [key, value] of Object.entries(args)) ...
RECURSIVE CheckEntries(_, _)
CheckEntries(entries, properties) ==
    IF entries = <<>> THEN Valid
    ELSE LET key   == Head(entries)[1]
             value == Head(entries)[2]
         IN  IF key \notin DOMAIN properties THEN CheckEntries(Tail(entries), properties)
             ELSE LET type == properties[key]
                  IN  IF type = "string" /\ TypeOf(value) # "string"
                          THEN TypeMismatch(key, "string")
                      ELSE IF type = "number" /\ TypeOf(value) # "number"
                          THEN TypeMismatch(key, "number")
                      ELSE IF type = "boolean" /\ TypeOf(value) # "boolean"
                          THEN TypeMismatch(key, "boolean")
                      ELSE IF type = "array" /\ ~IsArray(value)
                          THEN TypeMismatch(key, "array")
                      ELSE CheckEntries(Tail(entries), properties)

\* Returns Valid or what is thrown: an McpError, or the TypeError of
\* `required in args` when args is not an object.
validateArguments(args, schema) ==
    IF ~schema.hasProperties THEN Valid
    ELSE IF schema.hasRequired /\ schema.required # <<>> /\ args.kind # "object"
        THEN TypeError("Cannot use 'in' operator to search for '"
                           \o Head(schema.required) \o "' in " \o args.text)
    ELSE LET missing == IF ~schema.hasRequired THEN None
                        ELSE FirstMissing(schema.required, ObjectEntries(args))
         IN  IF missing # None
                 THEN McpError("InvalidParams", "Missing required parameter: " \o missing)
             ELSE CheckEntries(ObjectEntries(args), schema.properties)

(***************************************************************************)
(* executeCommand (src/src/utils/command.ts:40-127)                        *)
(*                                                                         *)
(* One record per invocation.  Every callback the invocation registers     *)
(* with the event loop (data, close, error, the timer) is one action; the  *)
(* promise continuations it triggers run in the same step, as microtasks   *)
(* do.                                                                     *)
(***************************************************************************)
CallIds == 1..MaxCalls

DefaultTimeout == 30000

\* result.duration: Date.now() - startTime; time is not modelled.
Elapsed == "<elapsed>"

\* The message of the Error that spawn emits when the binary cannot be run.
SpawnErrorMessage == "spawn deno ENOENT"

\* How a child ended: close(code, signal) has code = null when a signal ended it.
ExitCode(c) == [signal |-> FALSE, code |-> c]
KilledBySignal == [signal |-> TRUE, code |-> 0]
\* After a failed spawn Node emits close with the negative errno.
SpawnErrno == [signal |-> FALSE, code |-> -2]

ExitCodes == {0, 1, 2}
ExitStatuses == {ExitCode(c) : c \in ExitCodes} \cup {KilledBySignal}

\* What the two data handlers receive.
StdoutChunk == "ok"
StderrChunk == "bad flag"

DenoCommandResult(success, stdout, stderr, code) ==
    [kind |-> "DenoCommandResult", success |-> success, stdout |-> stdout,
     stderr |-> stderr, code |-> code, duration |-> Elapsed]

DenoCommandError(message, code, stdout, stderr) ==
    [kind |-> "DenoCommandError", message |-> message, code |-> code,
     stdout |-> stdout, stderr |-> stderr]

\* new Error(message)
PlainError(message) == [kind |-> "Error", message |-> message]

NoValue == [kind |-> "none"]
PendingPromise == [state |-> "pending", value |-> NoValue]

\* A promise that takes every resolve and reject, not only the first.
SettleOverwrite(promise, state, value) == [state |-> state, value |-> value]

\* resolve(value) / reject(value) of new Promise: only the first one settles it.
Settle(promise, state, value) ==
    IF promise.state = "pending" THEN [state |-> state, value |-> value]
    ELSE promise

NoCall ==
    [child |-> "none", status |-> ExitCode(0), argv |-> <<>>, timeout |-> 0,
     stdout |-> "", stderr |-> "", nout |-> 0, nerr |-> 0,
     timer |-> "none", sigterm |-> FALSE, promise |-> PendingPromise,
     delivered |-> <<>>, owner |-> "none"]

\* A timer that is armed only for timeouts above the default.
ArmTimerLong(timeout) == IF timeout > DefaultTimeout THEN "armed" ELSE "none"

\* if (timeout > 0) setTimeout(...)
ArmTimer(timeout) == IF timeout > 0 THEN "armed" ELSE "none"

\* The synchronous part of executeCommand: spawn('deno', [...permissions, ...args]),
\* the handlers, the timer.  options.permissions is never set by a caller, so
\* the argument vector is args.  spawned says whether the process was created.
NewCall(args, timeout, spawned) ==
    [NoCall EXCEPT !.child = IF spawned THEN "running" ELSE "failed",
                   !.argv = args,
                   !.timeout = timeout,
                   !.timer = ArmTimer(timeout)]

\* `${code}`
CodeText(status) == IF status.signal THEN "null" ELSE ToString(status.code)
\* code === 0
CodeIsZero(status) == ~status.signal /\ status.code = 0
\* code || dflt
CodeOr(status, dflt) == IF status.signal \/ status.code = 0 THEN dflt ELSE status.code

\* A close handler that resolves whatever the code is.
OnCloseAlwaysResolve(c) ==
    Settle(c.promise, "fulfilled",
           DenoCommandResult(CodeIsZero(c.status), c.stdout, c.stderr, CodeOr(c.status, 0)))

\* child.on('close', (code) => ...): the promise after the handler ran.
OnClose(c) ==
    IF CodeIsZero(c.status)
        THEN Settle(c.promise, "fulfilled",
                    DenoCommandResult(CodeIsZero(c.status), c.stdout, c.stderr,
                                      CodeOr(c.status, 0)))
    ELSE Settle(c.promise, "rejected",
                DenoCommandError("Deno command failed with code " \o CodeText(c.status),
                                 CodeOr(c.status, 1), c.stdout, c.stderr))

\* An error handler that leaves the promise alone.
OnErrorIgnored(c) == c.promise

\* child.on('error', (error) => ...)
OnError(c) ==
    Settle(c.promise, "rejected",
           DenoCommandError("Failed to execute Deno command: " \o SpawnErrorMessage,
                            1, c.stdout, c.stderr))

\* The reject of the timer callback.
OnTimeout(c) ==
    Settle(c.promise, "rejected",
           DenoCommandError("Command timed out after " \o ToString(c.timeout) \o "ms",
                            124, c.stdout, c.stderr))

\* The three failures, told apart as a caller can: by the message.
IsProcessFailed(e) ==
    e.kind = "DenoCommandError" /\ StartsWith(e.message, "Deno command failed with code ")
IsSpawnFailed(e) ==
    e.kind = "DenoCommandError" /\ StartsWith(e.message, "Failed to execute Deno command: ")
IsTimedOut(e) ==
    e.kind = "DenoCommandError" /\ StartsWith(e.message, "Command timed out after ")

(***************************************************************************)
(* Argument values as the handlers read them.                              *)
(***************************************************************************)
JsonNumber(n) == [kind |-> "number", num |-> n]
JsonBoolean(b) == [kind |-> "boolean", bool |-> b]
\* An array of strings.
JsonArray(elems) == [kind |-> "array", elems |-> elems]
Undefined == [kind |-> "undefined"]

\* options.key as destructuring reads it: undefined when absent.
Prop(options, key) ==
    IF options.kind = "object" /\ HasKey(options.entries, key)
        THEN ValueOf(options.entries, key)
    ELSE Undefined

\* if (value)
Truthy(value) ==
    CASE value.kind = "undefined" -> FALSE
      [] value.kind = "null"      -> FALSE
      [] value.kind = "boolean"   -> value.bool
      [] value.kind = "string"    -> value.text # ""
      [] value.kind = "number"    -> value.num # 0
      [] OTHER                    -> TRUE

\* const { key = [] } = options, for an array of strings
ElemsOr(value) == IF value.kind = "array" THEN value.elems ELSE <<>>

\* array.join(sep)
RECURSIVE Join(_, _)
Join(elems, sep) ==
    IF elems = <<>> THEN ""
    ELSE IF Len(elems) = 1 THEN elems[1]
    ELSE elems[1] \o sep \o Join(Tail(elems), sep)

(***************************************************************************)
(* validateAndNormalizePath (src/src/utils/command.ts:181-194)             *)
(***************************************************************************)
ProcessCwd == "/cwd"

Letters ==
    LET alphabet == "ABCDEFGHIJKLMNOPQRSTUVWXYZabcdefghijklmnopqrstuvwxyz"
    IN  {SubSeq(alphabet, i, i) : i \in 1..Len(alphabet)}

\* path.match(/^[A-Za-z]:/)
IsDrivePath(path) ==
    Len(path) >= 2 /\ SubSeq(path, 1, 1) \in Letters /\ SubSeq(path, 2, 2) = ":"

\* [kind |-> "throw", ...] or [kind |-> "path", ...]; join is modelled for
\* plain relative paths only.  A truthy path that is no string has no
\* startsWith.
validateAndNormalizePath(path, workingDirectory) ==
    IF ~Truthy(path) THEN [kind |-> "throw", error |-> PlainError("Path cannot be empty")]
    ELSE IF path.kind # "string"
        THEN [kind |-> "throw", error |-> TypeError("path.startsWith is not a function")]
    ELSE IF StartsWith(path.text, "/") \/ IsDrivePath(path.text)
        THEN [kind |-> "path", path |-> path.text]
    ELSE [kind |-> "path",
          path |-> (IF Truthy(workingDirectory) THEN workingDirectory.text ELSE ProcessCwd)
                       \o "/" \o path.text]

(***************************************************************************)
(* formatCommandOutput (src/src/utils/command.ts:234-248)                  *)
(***************************************************************************)
formatCommandOutput(result, includeStderr) ==
    LET withStderr == IF includeStderr /\ result.stderr # ""
                          THEN result.stdout \o "\n--- stderr ---\n" \o result.stderr
                      ELSE result.stdout
        withFailure == IF ~result.success
                           THEN withStderr \o "\n--- Command failed with code "
                                    \o ToString(result.code) \o " ---"
                       ELSE withStderr
    IN  Trim(withFailure \o "\n--- Execution time: " \o result.duration \o "ms ---")

(***************************************************************************)
(* denoRun and the deno_run handler                                        *)
(* (src/src/tools/development.ts:528-588, 750-777)                         *)
(***************************************************************************)
FlagIf(options, key, flag) == IF Truthy(Prop(options, key)) THEN <<flag>> ELSE <<>>

RECURSIVE V8Flags(_)
V8Flags(flags) ==
    IF flags = <<>> THEN <<>>
    ELSE <<"--v8-flags", Head(flags)>> \o V8Flags(Tail(flags))

\* commandArgs before the permissions are pushed.
RunFlags(options) ==
    LET lock   == Prop(options, "lock")
        reload == Prop(options, "reload")
        seed   == Prop(options, "seed")
    IN  <<"run">>
        \o FlagIf(options, "watch", "--watch")
        \o FlagIf(options, "inspect", "--inspect")
        \o FlagIf(options, "inspectBrk", "--inspect-brk")
        \o FlagIf(options, "cached", "--cached-only")
        \o (IF Truthy(lock) THEN <<"--lock", lock.text>> ELSE <<>>)
        \o FlagIf(options, "lockWrite", "--lock-write")
        \o FlagIf(options, "noRemote", "--no-remote")
        \o (IF ~Truthy(reload) THEN <<>>
            ELSE IF reload.kind = "array" THEN <<"--reload", Join(reload.elems, ",")>>
            ELSE <<"--reload">>)
        \o (IF seed.kind = "undefined" THEN <<>> ELSE <<"--seed", ToString(seed.num)>>)
        \o V8Flags(ElemsOr(Prop(options, "v8Flags")))

\* executeCommand's `timeout = 30000` default applied to options.timeout (a number
\* when given).
TimeoutOf(options) ==
    LET timeout == Prop(options, "timeout")
    IN  IF timeout.kind = "undefined" THEN DefaultTimeout ELSE timeout.num

\* denoRun up to its executeCommand call: what it throws, or the call it makes.
denoRun(options) ==
    LET scriptPath == validateAndNormalizePath(Prop(options, "script"),
                                               Prop(options, "workingDirectory"))
    IN  IF scriptPath.kind = "throw" THEN scriptPath
        ELSE [kind |-> "execute",
              args |-> RunFlags(options)
                           \o buildPermissionArgs(ElemsOr(Prop(options, "permissions")))
                           \o <<scriptPath.path>>
                           \o ElemsOr(Prop(options, "args")),
              timeout |-> TimeoutOf(options)]

(***************************************************************************)
(* The other tool functions that take permissions                          *)
(* (src/src/tools/development.ts:170-271, 593-735;                         *)
(* src/unnamed/part_002:68-101, 404-452)                                   *)
(***************************************************************************)
\* value.toString() of a number, the value itself of a string.
TextOf(value) == IF value.kind = "number" THEN ToString(value.num) ELSE value.text

\* if (value) commandArgs.push(flag, value)
OptionIf(options, key, flag) ==
    IF Truthy(Prop(options, key)) THEN <<flag, TextOf(Prop(options, key))>> ELSE <<>>

\* for (const item of list) commandArgs.push(flag, item)
RECURSIVE PushEach(_, _)
PushEach(flag, list) ==
    IF list = <<>> THEN <<>> ELSE <<flag, Head(list)>> \o PushEach(flag, Tail(list))

\* if (value) commandArgs.push(value)
PushIf(options, key) ==
    IF Truthy(Prop(options, key)) THEN <<TextOf(Prop(options, key))>> ELSE <<>>

\* The executeCommand call a tool function ends with.
Command(commandArgs, options) ==
    [kind |-> "execute", args |-> commandArgs, timeout |-> TimeoutOf(options)]

denoTest(options) ==
    Command(<<"test">>
                \o (IF Truthy(Prop(options, "coverage"))
                        THEN <<"--coverage">> \o OptionIf(options, "coverageDir", "--coverage-dir")
                    ELSE <<>>)
                \o FlagIf(options, "parallel", "--parallel")
                \o OptionIf(options, "jobs", "--jobs")
                \o FlagIf(options, "failFast", "--fail-fast")
                \o FlagIf(options, "allowNone", "--allow-none")
                \o OptionIf(options, "filter", "--filter")
                \o FlagIf(options, "shuffle", "--shuffle")
                \o OptionIf(options, "seed", "--seed")
                \o OptionIf(options, "reporter", "--reporter")
                \o PushEach("--ignore", ElemsOr(Prop(options, "ignore")))
                \o buildPermissionArgs(ElemsOr(Prop(options, "permissions")))
                \o PushIf(options, "pattern"),
            options)

denoBench(options) ==
    Command(<<"bench">>
                \o FlagIf(options, "json", "--json")
                \o OptionIf(options, "filter", "--filter")
                \o PushEach("--ignore", ElemsOr(Prop(options, "ignore")))
                \o buildPermissionArgs(ElemsOr(Prop(options, "permissions")))
                \o PushIf(options, "pattern"),
            options)

\* A denoServe that pushes the permissions after the script.
denoServePermissionsLast(options) ==
    LET scriptPath == validateAndNormalizePath(Prop(options, "script"),
                                               Prop(options, "workingDirectory"))
    IN  IF scriptPath.kind = "throw" THEN scriptPath
        ELSE Command(<<"serve">>
                         \o OptionIf(options, "port", "--port")
                         \o OptionIf(options, "host", "--host")
                         \o OptionIf(options, "cert", "--cert")
                         \o OptionIf(options, "key", "--key")
                         \o <<scriptPath.path>>
                         \o buildPermissionArgs(ElemsOr(Prop(options, "permissions"))),
                     options)

denoServe(options) ==
    LET scriptPath == validateAndNormalizePath(Prop(options, "script"),
                                               Prop(options, "workingDirectory"))
    IN  IF scriptPath.kind = "throw" THEN scriptPath
        ELSE Command(<<"serve">>
                         \o OptionIf(options, "port", "--port")
                         \o OptionIf(options, "host", "--host")
                         \o OptionIf(options, "cert", "--cert")
                         \o OptionIf(options, "key", "--key")
                         \o buildPermissionArgs(ElemsOr(Prop(options, "permissions")))
                         \o <<scriptPath.path>>,
                     options)

denoRepl(options) ==
    Command(<<"repl">>
                \o FlagIf(options, "unstable", "--unstable")
                \o OptionIf(options, "eval", "--eval")
                \o buildPermissionArgs(ElemsOr(Prop(options, "permissions"))),
            options)

\* code is required by the schema and pushed as it is.
denoEval(options) ==
    Command(<<"eval">>
                \o FlagIf(options, "print", "--print")
                \o (IF Truthy(Prop(options, "typescript")) THEN <<"--ext", "ts">> ELSE <<>>)
                \o buildPermissionArgs(ElemsOr(Prop(options, "permissions")))
                \o <<Prop(options, "code").text>>,
            options)

\* script is required by the schema and pushed as it is, not normalised.
denoInstall(options) ==
    Command(<<"install">>
                \o FlagIf(options, "global", "--global")
                \o OptionIf(options, "name", "--name")
                \o OptionIf(options, "root", "--root")
                \o FlagIf(options, "force", "--force")
                \o buildPermissionArgs(ElemsOr(Prop(options, "permissions")))
                \o <<Prop(options, "script").text>>,
            options)

denoCompile(options) ==
    LET scriptPath == validateAndNormalizePath(Prop(options, "script"),
                                               Prop(options, "workingDirectory"))
    IN  IF scriptPath.kind = "throw" THEN scriptPath
        ELSE Command(<<"compile">>
                         \o OptionIf(options, "output", "--output")
                         \o OptionIf(options, "target", "--target")
                         \o FlagIf(options, "noTerminal", "--no-terminal")
                         \o OptionIf(options, "icon", "--icon")
                         \o PushEach("--include", ElemsOr(Prop(options, "include")))
                         \o PushEach("--exclude", ElemsOr(Prop(options, "exclude")))
                         \o buildPermissionArgs(ElemsOr(Prop(options, "permissions")))
                         \o <<scriptPath.path>>,
                     options)

\* The tools that accept permissions, and the function each handler calls
\* with the arguments of the request.
PermissionTools ==
    {"deno_run", "deno_serve", "deno_test", "deno_bench", "deno_repl",
     "deno_eval", "deno_install", "deno_compile"}

ToolFunction(tool, options) ==
    CASE tool = "deno_run"     -> denoRun(options)
      [] tool = "deno_serve"   -> denoServe(options)
      [] tool = "deno_test"    -> denoTest(options)
      [] tool = "deno_bench"   -> denoBench(options)
      [] tool = "deno_repl"    -> denoRepl(options)
      [] tool = "deno_eval"    -> denoEval(options)
      [] tool = "deno_install" -> denoInstall(options)
      [] tool = "deno_compile" -> denoCompile(options)

\* { content: [{ type: "text", text }], isError }; isError is FALSE when the
\* key is not set.
ToolResult(text, isError) == [kind |-> "result", text |-> text, isError |-> isError]

\* error.stdout || "N/A" (undefined on an Error that is no DenoCommandError)
StdoutOrNA(error) ==
    IF error.kind = "DenoCommandError" /\ error.stdout # "" THEN error.stdout ELSE "N/A"
StderrOrNA(error) ==
    IF error.kind = "DenoCommandError" /\ error.stderr # "" THEN error.stderr ELSE "N/A"

\* The try branch of a handler: the report of a result.
HandlerReturn(result) == ToolResult(formatCommandOutput(result, TRUE), FALSE)

\* A catch branch that rethrows instead of returning an error result.
HandlerCatchRethrow(prefix, error) == [kind |-> "throw", error |-> error]

\* The catch branch of a handler.
HandlerCatch(prefix, error) ==
    ToolResult(prefix \o error.message
                   \o "\n\nStdout: " \o StdoutOrNA(error)
                   \o "\nStderr: " \o StderrOrNA(error),
               TRUE)

\* The prefix of a handler's catch branch.
CatchPrefix(name) ==
    CASE name = "deno_run" -> "Error executing script: "
      [] OTHER             -> "Error: "

\* An executeCommand call the handler awaits; stage names the awaiting function.
Execute(stage, args, timeout) ==
    [kind |-> "execute", stage |-> stage, args |-> args, timeout |-> timeout]

(***************************************************************************)
(* checkDenoStatus and the deno_version handler                            *)
(* (src/src/utils/command.ts:17-35, src/src/tools/utilities.ts:53-72,      *)
(* 132-176)                                                                *)
(***************************************************************************)
NotInstalled(error) ==
    ToolResult("Deno is not installed or not accessible.\nError: "
                   \o (IF error = "" THEN "Unknown error" ELSE error)
                   \o "\n\nTo install Deno, visit: https://deno.land/manual/getting_started/installation",
               TRUE)

\* A check that runs deno again whatever the first run gave.
InstallationCheckedRetry(promise) ==
    Execute("getDenoVersion", <<"--version">>, DefaultTimeout)

\* checkDenoInstallation settled: false on a rejection, else result.success.
InstallationChecked(promise) ==
    IF promise.state = "fulfilled" /\ promise.value.success
        THEN Execute("getDenoVersion", <<"--version">>, DefaultTimeout)
    ELSE NotInstalled("Deno is not installed or not accessible")

\* getDenoVersion settled.
VersionRead(promise) ==
    IF promise.state = "rejected" THEN NotInstalled(promise.value.message)
    ELSE IF ~promise.value.success THEN NotInstalled("Failed to get Deno version")
    ELSE ToolResult("Deno is installed and accessible.\n\n" \o Trim(promise.value.stdout), FALSE)

(***************************************************************************)
(* The handlers of the catalogue that are modelled: deno_run, deno_version *)
(***************************************************************************)
\* The handler up to its first await: a result returned at once (kind
\* "result"), or the executeCommand call it awaits (kind "execute").
HandlerStart(name, args) ==
    CASE name = "deno_run" ->
           LET started == denoRun(args)
           IN  IF started.kind = "throw" THEN HandlerCatch(CatchPrefix(name), started.error)
               ELSE Execute("denoRun", started.args, started.timeout)
      [] name = "deno_version" ->
           Execute("checkDenoInstallation", <<"--version">>, DefaultTimeout)

\* What the handler does when the promise it awaits settles.
HandlerSettled(name, stage, promise) ==
    CASE stage = "denoRun" ->
           IF promise.state = "fulfilled" THEN HandlerReturn(promise.value)
           ELSE HandlerCatch(CatchPrefix(name), promise.value)
      [] stage = "checkDenoInstallation" -> InstallationChecked(promise)
      [] stage = "getDenoVersion" -> VersionRead(promise)

(***************************************************************************)
(* The tools/call dispatcher (src/src/index.ts:145-173; the same code is   *)
(* in src/unnamed/part_001:150-178 and src/unnamed/part_004:602-641)       *)
(***************************************************************************)
\* The names with a handler in the model; deno_serve is in the catalogue
\* for its schema only and is never called.
Catalogue == {"deno_run", "deno_version"}

\* args || {}
ArgsOrEmpty(args) == IF Truthy(args) THEN args ELSE JsonObject(<<>>)

Thrown(error) == [kind |-> "throw", error |-> error]

\* A catch that rethrows whatever it caught.
DispatchCatchRethrow(error) == error

\* catch (error) { if (error instanceof McpError) throw error; throw new McpError(...) }
DispatchCatch(error) ==
    IF error.kind = "McpError" THEN error
    ELSE McpError("InternalError", "Tool execution failed: " \o error.message)

\* What a handler gave, as the dispatcher passes it on.
Dispatched(outcome) ==
    IF outcome.kind = "throw" THEN Thrown(DispatchCatch(outcome.error)) ELSE outcome

\* A dispatcher that starts the handler before it validates the arguments.
CallToolHandlerFirst(name, args) ==
    IF name \notin Catalogue
        THEN Thrown(McpError("MethodNotFound", "Unknown tool: " \o name))
    ELSE LET checked == validateArguments(ArgsOrEmpty(args), ToolSchema(name))
             started == Dispatched(HandlerStart(name, ArgsOrEmpty(args)))
         IN  IF started.kind = "execute" \/ checked = Valid THEN started
             ELSE Thrown(DispatchCatch(checked))

\* The dispatcher up to the first await of the handler: what it throws,
\* the result it returns, or the call the handler awaits.
CallTool(name, args) ==
    IF name \notin Catalogue
        THEN Thrown(McpError("MethodNotFound", "Unknown tool: " \o name))
    ELSE LET checked == validateArguments(ArgsOrEmpty(args), ToolSchema(name))
         IN  IF checked # Valid THEN Thrown(DispatchCatch(checked))
             ELSE Dispatched(HandlerStart(name, ArgsOrEmpty(args)))

\* The dispatcher when the promise the handler awaits settles.
CallToolSettled(name, stage, promise) == Dispatched(HandlerSettled(name, stage, promise))

(***************************************************************************)
(* Requests, responses and the record of a finished dispatch               *)
(***************************************************************************)
NoRequest == [kind |-> "none"]
NoRecord == [kind |-> "none"]

\* A tools/call request: the front end it came through, the session id it
\* carries ("" for none), params.name and params.arguments.
ToolsCall(via, session, name, arguments) ==
    [kind |-> "tools/call", via |-> via, session |-> session,
     name |-> name, arguments |-> arguments]

\* A request that is no tools/call: initialize, or a body the front end rejects.
OtherRequest(via, session, body) ==
    [kind |-> "other", via |-> via, session |-> session, body |-> body]

\* res.status(status).json({ error: { code, message } })
HttpError(status, code, message) ==
    [kind |-> "HttpError", status |-> status, code |-> code, message |-> message]

\* The answer to initialize: the session the transport generated.
Initialized(session) == [kind |-> "initialized", session |-> session]

\* What the caller is sent for an outcome of the dispatcher.
Response(outcome) == IF outcome.kind = "throw" THEN outcome.error ELSE outcome

\* The events the wrapper writes before it looks the tool up
\* (src/unnamed/part_004:561-612).
Opening(via) == IF via = "wrapper" THEN <<"connected", "progress">> ELSE <<>>

\* The events the wrapper writes when the dispatch has ended: after the try
\* block (src/unnamed/part_004:643-660) or in its catch block (679-683).
ClosingUnguarded(via, outcome) ==
    IF via # "wrapper" THEN <<>>
    ELSE IF outcome.kind = "throw" THEN <<"response", "error">>
    ELSE <<"response", "complete">>

Closing(via, outcome) ==
    IF via # "wrapper" THEN <<>>
    ELSE IF outcome.kind = "throw" THEN <<"error">>
    ELSE <<"response", "complete">>

\* The events the wrapper writes to the stream (src/unnamed/part_004:561-700).
SseEvents(via, outcome) == Opening(via) \o Closing(via, outcome)

\* spawns: the executeCommand calls made for the request; client: whether
\* the caller's connection was still open when the answer was written.
Record(request, response, events, spawns) ==
    [kind |-> "record", request |-> request, response |-> response,
     events |-> events, spawns |-> spawns, client |-> "connected"]

Finished(request, outcome, spawns) ==
    Record(request, Response(outcome), SseEvents(request.via, outcome), spawns)

\* The n-th value of randomUUID().
SessionId(n) == "session-" \o ToString(n)

(***************************************************************************)
(* The requests the model sends                                            *)
(***************************************************************************)
MainScript == <<"script", JsonString("main.ts")>>

RunArguments ==
    {JsonObject(<<>>),
     JsonObject(<<MainScript>>),
     JsonObject(<< <<"script", JsonString("/app/main.ts")>>,
                   <<"permissions", JsonArray(<<"read", "--allow-net">>)>>,
                   <<"args", JsonArray(<<"--port">>)>>,
                   <<"timeout", JsonNumber(0)>> >>),
     JsonObject(<<MainScript, <<"timeout", JsonNumber(5)>> >>),
     JsonObject(<< <<"script", JsonNumber(5)>> >>),
     JsonObject(<< <<"script", JsonString("")>> >>),
     JsonObject(<<MainScript, <<"watch", JsonString("yes")>> >>)}

\* <<name, arguments>> as the SDK transports pass them: arguments is an
\* object or absent.
CallInputs ==
    ({"deno_run"} \X RunArguments)
    \cup {<<"no_such_tool", JsonObject(<<MainScript>>)>>}
    \cup {<<"deno_version", Undefined>>, <<"deno_version", JsonObject(<<>>)>>}

\* The wrapper reads params from JSON.parse(body): arguments may be any JSON value.
WrapperInputs ==
    CallInputs \cup {<<"deno_run", JsonString("a")>>, <<"deno_run", JsonString("b")>>}

(***************************************************************************)
(* The server processes                                                    *)
(***************************************************************************)
\* The stdio server after main() (src/src/index.ts:200-210): phase is
\* running, closing (a signal handler awaits server.close()) or exited.
\* server is the protocol server: connected until server.close() resolved.
\* exit is <<>> until process.exit(code), then <<code>>.
StdioStarted == [phase |-> "running", exit |-> <<>>, server |-> "connected"]

\* The HTTP server after app.listen (src/unnamed/part_001:459-465), with an
\* empty session map.  phase: running, closing (gracefulShutdown is in its
\* loop over the sessions), draining (server.close was called and the force
\* timer is armed), exited.
\*   issued   - the transports created so far
\*   bindings - every <<key, transport>> onsessioninitialized has stored
\*   closed   - the keys transport.onclose has deleted
\*   reclosed - <<key, caller>> of the latest run of onclose that found the
\*              key gone already, <<>> if there was none
\*   deleting - the sessions a DELETE handler is awaiting handleRequest for
\*   atSignal - the keys of the map when gracefulShutdown was entered
\*   todo     - the keys the for-in loop has still to visit
\*   tried    - the keys whose close() the loop has awaited
\*   threw    - the keys whose close() rejected
\*   timer    - the force-exit timer: none, armed
\*   uncaught - a callback threw outside every try block
HttpStarted ==
    [phase |-> "running", exit |-> <<>>, issued |-> 0, bindings |-> {},
     closed |-> {}, reclosed |-> <<>>, deleting |-> {}, atSignal |-> {}, todo |-> <<>>,
     tried |-> {}, threw |-> {}, timer |-> "none", uncaught |-> FALSE]

\* The exit event of a child that has not exited carries nothing yet.
NoStatus == [code |-> <<>>, signal |-> "none"]

\* The wrapper after main() (src/unnamed/part_004:811-849): the MCP child
\* was spawned, its start-up timer has run, the listener is open.  phase:
\* running, draining (httpServer.close was called), stopping (its callback
\* ran), exited.
\*   child   - the process in mcpProcess: running, exited
\*   killed  - mcpProcess.killed
\*   status  - code (<<>> for null) and signal of the child's exit event
\*   healthy - isHealthy
\*   timers  - the pending timers, in the order they were set
\*   starts  - the calls of startMcpServer so far
WrapperStarted ==
    [phase |-> "running", exit |-> <<>>, child |-> "running", killed |-> FALSE,
     status |-> NoStatus, healthy |-> TRUE, timers |-> <<>>, starts |-> 1]

\* The process behind a front end has not exited: its event loop runs.
ProcessAlive(via) ==
    CASE via = "stdio"   -> stdioProc.phase # "exited"
      [] via = "http"    -> httpProc.phase # "exited"
      [] via = "wrapper" -> wrapperProc.phase # "exited"

(***************************************************************************)
(* Idle values of each part, for the specifications that leave it alone.   *)
(***************************************************************************)
PermIdle ==
    /\ permIn = <<>>
    /\ permOut = None
    /\ permOut2 = None

ValidateIdle ==
    /\ vTool = None
    /\ vArgs = <<>>
    /\ vOutcome = NoOutcome

BuildIdle ==
    /\ bTool = None
    /\ bOptions = JsonObject(<<>>)
    /\ bCommand = NoValue

RunnerIdle ==
    /\ calls = [i \in CallIds |-> NoCall]
    /\ ncalls = 0

DispatchIdle ==
    /\ inflight = NoRequest
    /\ last = NoRecord
    /\ prevError = NoRecord
    /\ nrequests = 0
    /\ transports = {}

\* The three server processes have started and nothing has happened to them.
LifeIdle ==
    /\ stdioProc = StdioStarted
    /\ httpProc = HttpStarted
    /\ wrapperProc = WrapperStarted

(***************************************************************************)
(* SpecPerm: buildPermissionArgs on every token list up to MaxPermLen.     *)
(***************************************************************************)
PermInit ==
    /\ permIn \in SeqsUpTo(PermissionTokens, MaxPermLen)
    /\ permOut = None
    /\ permOut2 = None
    /\ ValidateIdle
    /\ BuildIdle
    /\ RunnerIdle
    /\ DispatchIdle
    /\ LifeIdle

Translate ==
    /\ permOut = None
    /\ permOut' = buildPermissionArgs(permIn)
    /\ UNCHANGED <<permIn, permOut2, validateVars, buildVars, runnerVars, dispatchVars, lifeVars>>

TranslateAgain ==
    /\ permOut # None
    /\ permOut2 = None
    /\ permOut2' = buildPermissionArgs(permOut)
    /\ UNCHANGED <<permIn, permOut, validateVars, buildVars, runnerVars, dispatchVars, lifeVars>>

NextPerm == Translate \/ TranslateAgain

SpecPerm == PermInit /\ [][NextPerm]_vars

(***************************************************************************)
(* SpecValidate: the validation step of the dispatcher's try block         *)
(* (src/src/index.ts:154-164) on every tool and argument object.           *)
(***************************************************************************)
ValidateInit ==
    /\ vTool \in ToolNames
    /\ vArgs \in ArgObjects
    /\ vOutcome = NoOutcome
    /\ PermIdle
    /\ BuildIdle
    /\ RunnerIdle
    /\ DispatchIdle
    /\ LifeIdle

\* validateArguments(args || {}, tool.inputSchema); on return the handler is
\* invoked, on a throw the McpError is rethrown to the caller.
ValidateAndInvoke ==
    /\ vOutcome = NoOutcome
    /\ LET checked == validateArguments(JsonObject(vArgs), ToolSchema(vTool))
       IN  vOutcome' = IF checked = Valid THEN HandlerInvoked ELSE checked
    /\ UNCHANGED <<vTool, vArgs, permVars, buildVars, runnerVars, dispatchVars, lifeVars>>

NextValidate == ValidateAndInvoke

SpecValidate == ValidateInit /\ [][NextValidate]_vars

(***************************************************************************)
(* SpecBuild: the eight tool functions that take permissions, each applied *)
(* to option objects with and without option flags, with every permission  *)
(* list up to MaxPermLen and with its positional arguments.                *)
(***************************************************************************)
\* Permission tokens of the three kinds: a shorthand, a literal flag, and
\* tokens that are passed through.
BuildTokens == {"read", "--allow-net", "-A", "x.ts"}

\* The option entries of a tool that make it push option flags.
OptionEntries(tool) ==
    CASE tool = "deno_run" ->
           << <<"watch", JsonBoolean(TRUE)>>, <<"lock", JsonString("deno.lock")>>,
              <<"reload", JsonArray(<<"a", "b">>)>>, <<"seed", JsonNumber(0)>>,
              <<"v8Flags", JsonArray(<<"--stack-size=1">>)>> >>
      [] tool = "deno_serve" ->
           << <<"port", JsonNumber(8000)>>, <<"host", JsonString("localhost")>> >>
      [] tool = "deno_test" ->
           << <<"coverage", JsonBoolean(TRUE)>>, <<"coverageDir", JsonString("cov")>>,
              <<"jobs", JsonNumber(2)>>, <<"seed", JsonNumber(0)>>,
              <<"ignore", JsonArray(<<"vendor">>)>> >>
      [] tool = "deno_bench" ->
           << <<"json", JsonBoolean(TRUE)>>, <<"ignore", JsonArray(<<"vendor">>)>> >>
      [] tool = "deno_repl" ->
           << <<"unstable", JsonBoolean(TRUE)>>, <<"eval", JsonString("1+1")>> >>
      [] tool = "deno_eval" ->
           << <<"print", JsonBoolean(TRUE)>>, <<"typescript", JsonBoolean(TRUE)>> >>
      [] tool = "deno_install" ->
           << <<"global", JsonBoolean(TRUE)>>, <<"name", JsonString("tool")>> >>
      [] tool = "deno_compile" ->
           << <<"output", JsonString("app")>>, <<"noTerminal", JsonBoolean(TRUE)>>,
              <<"include", JsonArray(<<"data">>)>>, <<"exclude", JsonArray(<<"tmp">>)>> >>

\* The entries that give a tool its positional arguments, one sequence per
\* case: a script that is absolute or relative (with trailing arguments for
\* deno_run), the code, a pattern or none.
PositionalEntries(tool) ==
    CASE tool = "deno_run" ->
           {<< <<"script", JsonString("/app/main.ts")>> >>,
            << <<"script", JsonString("main.ts")>>,
               <<"args", JsonArray(<<"--port", "--allow-net">>)>> >>}
      [] tool \in {"deno_serve", "deno_compile", "deno_install"} ->
           {<< <<"script", JsonString("/app/main.ts")>> >>,
            << <<"script", JsonString("main.ts")>> >>}
      [] tool \in {"deno_test", "deno_bench"} ->
           {<<>>, << <<"pattern", JsonString("tests/")>> >>}
      [] tool = "deno_repl" -> {<<>>}
      [] tool = "deno_eval" -> {<< <<"code", JsonString("1+1")>> >>}

\* The option objects a tool is called with.
BuildInputs(tool) ==
    {JsonObject(flags \o positional \o permissions) :
         flags \in {<<>>, OptionEntries(tool)},
         positional \in PositionalEntries(tool),
         permissions \in {<<>>} \cup
             {<< <<"permissions", JsonArray(list)>> >> :
                  list \in SeqsUpTo(BuildTokens, MaxPermLen)}}

BuildInit ==
    /\ bTool \in PermissionTools
    /\ bOptions \in BuildInputs(bTool)
    /\ bCommand = NoValue
    /\ PermIdle
    /\ ValidateIdle
    /\ RunnerIdle
    /\ DispatchIdle
    /\ LifeIdle

\* The handler calls the tool function, which builds commandArgs and calls
\* executeCommand(commandArgs, { workingDirectory, envVars, timeout }):
\* options.permissions is not passed on, so spawn is given commandArgs.
Build ==
    /\ bCommand = NoValue
    /\ bCommand' = ToolFunction(bTool, bOptions)
    /\ UNCHANGED <<bTool, bOptions, permVars, validateVars, runnerVars, dispatchVars, lifeVars>>

NextBuild == Build

SpecBuild == BuildInit /\ [][NextBuild]_vars

(***************************************************************************)
(* Spec: the three front ends, the dispatcher, the handlers and the        *)
(* runner.  One request is dispatched at a time.                           *)
(***************************************************************************)
Init ==
    /\ PermIdle
    /\ ValidateIdle
    /\ BuildIdle
    /\ RunnerIdle
    /\ DispatchIdle
    /\ LifeIdle

\* A request arrives: it is counted, and the last record moves out.
Receive ==
    /\ inflight = NoRequest
    /\ nrequests < MaxRequests
    /\ nrequests' = nrequests + 1
    /\ prevError' = IF last.kind = "record" /\ last.response.kind = "McpError"
                           /\ last.response.code = "InternalError"
                        THEN last ELSE NoRecord

\* A request answered in the step that received it.
Answer(record) ==
    /\ last' = record
    /\ UNCHANGED <<calls, ncalls, inflight>>

\* No callback of the call can run any more.
Dead(c) == c.child \in {"none", "closed"} /\ c.timer # "armed"

\* executeCommand is entered by a new request: spawn succeeds or fails, the
\* timer is armed.  owner is the server process whose event loop holds the
\* call's callbacks.  The calls of different requests share no state; the
\* model starts the first call of a request when the calls of the requests
\* before it are dead, and reuses their numbers.
Spawn(execute, via) ==
    /\ \A i \in CallIds : Dead(calls[i])
    /\ ncalls' = 1
    /\ \E spawned \in BOOLEAN :
           calls' = [i \in CallIds |->
                        IF i = 1
                            THEN [NewCall(execute.args, execute.timeout, spawned)
                                      EXCEPT !.owner = via]
                        ELSE NoCall]

\* The CallTool handler from the request to the handler's first await.
Begin(request) ==
    /\ Receive
    /\ LET started == CallTool(request.name, request.arguments)
       IN  IF started.kind = "execute"
               THEN /\ Spawn(started, request.via)
                    /\ inflight' = [kind |-> "dispatch", request |-> request,
                                    stage |-> started.stage, call |-> 1,
                                    events |-> Opening(request.via),
                                    client |-> "connected"]
                    /\ last' = NoRecord
           ELSE Answer(Finished(request, started, 0))

\* src/src/index.ts:145-173 over the stdio transport
StdioCallTool ==
    /\ stdioProc.phase = "running"
    /\ \E input \in CallInputs : Begin(ToolsCall("stdio", "", input[1], input[2]))
    /\ UNCHANGED <<transports, permVars, validateVars, buildVars, lifeVars>>

\* Keys every object inherits from Object.prototype: transports is a plain
\* object (src/unnamed/part_001:198), so transports[key] is truthy for them
\* although no session was stored under them.  "constructor" stands for
\* them all ("__proto__", "toString", "valueOf", "hasOwnProperty", ...).
PrototypeKeys == {"constructor"}

\* sessionId && transports[sessionId] (src/unnamed/part_001:351, 416, 433)
Lookup(map, sessionId) ==
    sessionId # "" /\ (sessionId \in map \/ sessionId \in PrototypeKeys)

\* The branch mcpPostHandler takes (src/unnamed/part_001:351-380).
PostRoute(map, sessionId, body) ==
    IF Lookup(map, sessionId) THEN "reuse"
    ELSE IF sessionId = "" /\ body = "initialize" THEN "initialize"
    ELSE "refuse"

\* sessionIdGenerator: () => randomUUID() (src/unnamed/part_001:357), for
\* the n-th transport: a value no earlier call returned.
sessionIdGeneratorFixed(n) == SessionId(1)

sessionIdGenerator(n) == SessionId(n)

\* POST requests that carry the id of a session that was closed.
ClosedPosts(closed) ==
    {OtherRequest("http", session, body) :
         session \in closed, body \in {"initialize", "tools/call"}}

\* A callback that stores nothing: the session stays out of the map.
onsessioninitializedUnstored(map, sessionId) == map

\* onsessioninitialized: (sessionId) => { transports[sessionId] = transport }
\* (src/unnamed/part_001:360-363).  The transport calls it while it handles
\* the initialize request, before it writes the response.
onsessioninitialized(map, sessionId) == map \cup {sessionId}

\* mcpPostHandler (src/unnamed/part_001:339-408): no session id and an
\* initialize body; a transport is created, its generator names the session
\* and onsessioninitialized stores the transport under that key.
HttpInitialize ==
    /\ ProcessAlive("http")
    /\ PostRoute(transports, "", "initialize") = "initialize"
    /\ Receive
    /\ LET transport == httpProc.issued + 1
           sessionId == sessionIdGenerator(transport)
       IN  /\ transports' = onsessioninitialized(transports, sessionId)
           /\ httpProc' = [httpProc EXCEPT !.issued = transport,
                                           !.bindings = @ \cup {<<sessionId, transport>>}]
           /\ Answer(Record(OtherRequest("http", "", "initialize"),
                            Initialized(sessionId), <<>>, 0))
    /\ UNCHANGED <<permVars, validateVars, buildVars, stdioProc, wrapperProc>>

\* mcpPostHandler: a known session id; the transport hands the request to
\* the dispatcher (src/unnamed/part_001:150-178).
HttpCallTool ==
    /\ ProcessAlive("http")
    /\ \E session \in transports, input \in CallInputs :
           /\ PostRoute(transports, session, "tools/call") = "reuse"
           /\ Begin(ToolsCall("http", session, input[1], input[2]))
    /\ UNCHANGED <<transports, permVars, validateVars, buildVars, lifeVars>>

\* The requests mcpPostHandler refuses: an unknown session id with any
\* body, or no session id and a body that is not initialize.
RefusedPosts ==
    {OtherRequest("http", "stale", "initialize"),
     OtherRequest("http", "stale", "tools/call"),
     OtherRequest("http", "", "tools/call")}

\* mcpPostHandler: the else branch.
HttpBadRequest ==
    /\ ProcessAlive("http")
    /\ Receive
    /\ \E request \in RefusedPosts \cup ClosedPosts(httpProc.closed) :
           /\ PostRoute(transports, request.session, request.body) = "refuse"
           /\ Answer(Record(request,
                         HttpError(400, "-32000",
                                   "Bad Request: No valid session ID provided or not an initialization request"),
                         <<>>, 0))
    /\ UNCHANGED <<transports, permVars, validateVars, buildVars, lifeVars>>

\* handleMcpEndpoint (src/unnamed/part_004:520-700): a tools/call body.
WrapperCallTool ==
    /\ ProcessAlive("wrapper")
    /\ \E input \in WrapperInputs : Begin(ToolsCall("wrapper", "", input[1], input[2]))
    /\ UNCHANGED <<transports, permVars, validateVars, buildVars, lifeVars>>

\* handleMcpEndpoint: a body JSON.parse rejects (500 from the outer catch,
\* headers not sent), or one without jsonrpc "2.0" (400).
WrapperBadRequest ==
    /\ ProcessAlive("wrapper")
    /\ Receive
    /\ \/ Answer(Record(OtherRequest("wrapper", "", "not json"),
                        HttpError(500, "InternalError", "Unexpected token o in JSON at position 1"),
                        <<>>, 0))
       \/ Answer(Record(OtherRequest("wrapper", "", "jsonrpc 1.0"),
                        HttpError(400, "-32600",
                                  "Invalid Request - missing or invalid jsonrpc version"),
                        <<>>, 0))
    /\ UNCHANGED <<transports, permVars, validateVars, buildVars, lifeVars>>

\* A callback of call i ran and left the call as c: if it settled the promise
\* the awaiting handler continues, to its result or to its next call.
Continue(i, c) ==
    LET changed == c.promise # calls[i].promise
        after   == [c EXCEPT !.delivered = IF changed THEN Append(@, c.promise) ELSE @]
    IN  IF changed /\ calls[i].promise.state = "pending"
               /\ inflight.kind = "dispatch" /\ inflight.call = i
            THEN LET outcome == CallToolSettled(inflight.request.name, inflight.stage, c.promise)
                 IN  IF outcome.kind = "execute"
                         THEN /\ ncalls < MaxCalls
                              /\ ncalls' = ncalls + 1
                              /\ \E spawned \in BOOLEAN :
                                     calls' = [calls EXCEPT
                                                  ![i] = after,
                                                  ![ncalls + 1] =
                                                      [NewCall(outcome.args, outcome.timeout, spawned)
                                                           EXCEPT !.owner = calls[i].owner]]
                              /\ inflight' = [inflight EXCEPT !.stage = outcome.stage,
                                                              !.call = ncalls + 1]
                              /\ UNCHANGED last
                     ELSE /\ calls' = [calls EXCEPT ![i] = after]
                          /\ last' = [Record(inflight.request, Response(outcome),
                                              inflight.events
                                                  \o Closing(inflight.request.via, outcome),
                                              ncalls)
                                          EXCEPT !.client = inflight.client]
                          /\ inflight' = NoRequest
                          /\ UNCHANGED ncalls
        ELSE /\ calls' = [calls EXCEPT ![i] = after]
             /\ UNCHANGED <<ncalls, inflight, last>>

Quiet == UNCHANGED <<prevError, nrequests, transports, permVars, validateVars, buildVars, lifeVars>>

\* child.stdout.on('data'): stdout += data.  Once the promise is settled
\* nothing reads the captured text any more, and the model stops capturing.
ChildStdout(i) ==
    /\ i <= ncalls
    /\ ProcessAlive(calls[i].owner)
    /\ calls[i].child = "running"
    /\ calls[i].promise.state = "pending"
    /\ calls[i].nout < MaxChunks
    /\ calls' = [calls EXCEPT ![i].stdout = @ \o StdoutChunk, ![i].nout = @ + 1]
    /\ UNCHANGED <<ncalls, inflight, last>>
    /\ Quiet

\* child.stderr.on('data'): stderr += data
ChildStderr(i) ==
    /\ i <= ncalls
    /\ ProcessAlive(calls[i].owner)
    /\ calls[i].child = "running"
    /\ calls[i].promise.state = "pending"
    /\ calls[i].nerr < MaxChunks
    /\ calls' = [calls EXCEPT ![i].stderr = @ \o StderrChunk, ![i].nerr = @ + 1]
    /\ UNCHANGED <<ncalls, inflight, last>>
    /\ Quiet

\* The statuses close can carry: those of a child that ran, or the errno
\* after the error event of a failed spawn.
CloseStatuses(c) == IF c.child = "running" THEN ExitStatuses ELSE {SpawnErrno}

\* child.on('close'): the child has ended and its streams are closed.
ChildClose(i) ==
    /\ i <= ncalls
    /\ ProcessAlive(calls[i].owner)
    /\ calls[i].child \in {"running", "errored"}
    /\ \E status \in CloseStatuses(calls[i]) :
           LET c == [calls[i] EXCEPT !.child = "closed", !.status = status]
           IN  Continue(i, [c EXCEPT !.promise = OnClose(c)])
    /\ Quiet

\* child.on('error'): emitted for a spawn that failed, before any timer.
ChildError(i) ==
    /\ i <= ncalls
    /\ ProcessAlive(calls[i].owner)
    /\ calls[i].child = "failed"
    /\ LET c == [calls[i] EXCEPT !.child = "errored"]
       IN  Continue(i, [c EXCEPT !.promise = OnError(c)])
    /\ Quiet

\* A kill that signals the process id whatever became of the child.
SignalSentAlways(c) == TRUE

\* child.kill('SIGTERM') (src/src/utils/command.ts:117): whether a signal is
\* sent.  The ChildProcess gives up its handle when the child has exited or
\* could not be spawned, and kill without a handle sends nothing.
SignalSent(c) == c.child = "running"

\* The setTimeout callback: child.kill('SIGTERM') (a signal only if the
\* child still runs), then reject.
TimerFire(i) ==
    /\ i <= ncalls
    /\ ProcessAlive(calls[i].owner)
    /\ calls[i].timer = "armed"
    /\ calls[i].child # "failed"
    /\ LET c == [calls[i] EXCEPT !.timer = "fired",
                                 !.sigterm = SignalSent(calls[i])]
       IN  Continue(i, [c EXCEPT !.promise = OnTimeout(c)])
    /\ Quiet

Next ==
    \/ StdioCallTool
    \/ HttpInitialize
    \/ HttpCallTool
    \/ HttpBadRequest
    \/ WrapperCallTool
    \/ WrapperBadRequest
    \/ \E i \in CallIds : ChildStdout(i)
    \/ \E i \in CallIds : ChildStderr(i)
    \/ \E i \in CallIds : ChildClose(i)
    \/ \E i \in CallIds : ChildError(i)
    \/ \E i \in CallIds : TimerFire(i)

Spec == Init /\ [][Next]_vars

(***************************************************************************)
(* SpecLive: the stdio server and the runner, with the one scheduling      *)
(* guarantee the runner relies on: the event loop runs the callback of a   *)
(* timer that has expired.  Nothing is assumed of the child: it may never  *)
(* close.                                                                  *)
(***************************************************************************)
NextLive ==
    \/ StdioCallTool
    \/ \E i \in CallIds : ChildStdout(i)
    \/ \E i \in CallIds : ChildStderr(i)
    \/ \E i \in CallIds : ChildClose(i)
    \/ \E i \in CallIds : ChildError(i)
    \/ \E i \in CallIds : TimerFire(i)

SpecLive == Init /\ [][NextLive]_vars /\ \A i \in CallIds : WF_vars(TimerFire(i))

(***************************************************************************)
(* SpecHttp: the session layer of the HTTP server - its session map, the   *)
(* handshake, the refusals of POST, the GET and DELETE routes, the         *)
(* transports' close handler and gracefulShutdown.  SpecHttpLive adds the  *)
(* dispatches of the sessions and the runner (what the children write is   *)
(* left to Spec).                                                          *)
(***************************************************************************)
\* A GET or DELETE of /mcp, or a POST that does not reach the dispatcher.
\* open tells whether the session id was a key of the map on arrival.
SessionRequest(method, session, body, open) ==
    [kind |-> "session", via |-> "http", method |-> method, session |-> session,
     body |-> body, open |-> open]

\* transport.handleRequest answered a GET: the SSE stream is open.
StreamOpened == [kind |-> "stream"]

\* transport.handleRequest answered a DELETE: the session is terminated.
Terminated == [kind |-> "terminated"]

\* The handler's promise rejected and nothing was sent.
NoResponse == [kind |-> "no response"]

\* The session ids the model's clients present: none, one never issued, a
\* prototype key, and every id that was issued.
PresentedIds(p) == {"", "stale"} \cup PrototypeKeys \cup {b[1] : b \in p.bindings}

\* transport.onclose of the transport of session sid
\* (src/unnamed/part_001:366-373): the new map and whether it threw.
oncloseUnguarded(map, sid) == [map |-> map \ {sid}, threw |-> sid \notin map]

onclose(map, sid) ==
    [map |-> IF Lookup(map, sid) THEN map \ {sid} ELSE map, threw |-> FALSE]

\* The keys for (const sessionId in transports) enumerates: the own keys in
\* the order they were stored.
KeysInOrder(map, issued) ==
    SelectSeq([n \in 1..issued |-> sessionIdGenerator(n)], LAMBDA key : key \in map)

\* gracefulShutdown after its loop: server.close(callback) and the force
\* timer (src/unnamed/part_001:484-494).
CloseListener(p) == [p EXCEPT !.phase = "draining", !.timer = "armed"]

\* gracefulShutdown up to its first await (src/unnamed/part_001:470-478).
\* A second call while one is under way is not modelled.
gracefulShutdown(p, map) ==
    IF p.phase # "running" THEN p
    ELSE LET keys == KeysInOrder(map, p.issued)
             begun == [p EXCEPT !.atSignal = map, !.todo = keys, !.phase = "closing"]
         IN  IF keys = <<>> THEN CloseListener(begun) ELSE begun

\* A request of the session layer is answered; the runner is not involved.
SessionAnswer(request, response) ==
    /\ last' = Record(request, response, <<>>, 0)
    /\ UNCHANGED <<runnerVars, inflight, prevError, nrequests,
                   permVars, validateVars, buildVars, stdioProc, wrapperProc>>

\* mcpPostHandler with a session id the lookup finds although no session is
\* stored under it: transport.handleRequest is not a function, the catch
\* block answers (src/unnamed/part_001:392-406).
HttpPostFault ==
    /\ ProcessAlive("http")
    /\ \E sid \in PrototypeKeys, body \in {"initialize", "tools/call"} :
           /\ PostRoute(transports, sid, body) = "reuse"
           /\ sid \notin transports
           /\ SessionAnswer(SessionRequest("POST", sid, body, FALSE),
                            HttpError(500, "-32603", "Internal server error"))
    /\ UNCHANGED <<transports, httpProc>>

\* mcpGetHandler (src/unnamed/part_001:413-425).  It has no try block: when
\* handleRequest is not a function the handler's promise rejects, which the
\* router either passes to its error handler (500) or leaves unhandled, and
\* then the unhandledRejection listener (src/unnamed/part_001:505-508) calls
\* gracefulShutdown.
HttpGet ==
    /\ ProcessAlive("http")
    /\ \E sid \in PresentedIds(httpProc) :
           LET request == SessionRequest("GET", sid, "", sid \in transports)
           IN  IF ~Lookup(transports, sid)
                   THEN /\ SessionAnswer(request, HttpError(400, "", "Invalid or missing session ID"))
                        /\ UNCHANGED <<transports, httpProc>>
               ELSE IF sid \in transports
                   THEN /\ SessionAnswer(request, StreamOpened)
                        /\ UNCHANGED <<transports, httpProc>>
               ELSE \/ /\ SessionAnswer(request, HttpError(500, "", "Internal Server Error"))
                       /\ UNCHANGED <<transports, httpProc>>
                    \/ /\ SessionAnswer(request, NoResponse)
                       /\ httpProc' = gracefulShutdown(httpProc, transports)
                       /\ UNCHANGED transports

\* mcpDeleteHandler up to its await (src/unnamed/part_001:430-449).
HttpDelete ==
    /\ ProcessAlive("http")
    /\ \E sid \in PresentedIds(httpProc) :
           LET request == SessionRequest("DELETE", sid, "", sid \in transports)
           IN  IF ~Lookup(transports, sid)
                   THEN /\ SessionAnswer(request, HttpError(400, "", "Invalid or missing session ID"))
                        /\ UNCHANGED <<transports, httpProc>>
               ELSE IF sid \in transports
                   THEN /\ sid \notin httpProc.deleting
                        /\ httpProc' = [httpProc EXCEPT !.deleting = @ \cup {sid}]
                        /\ UNCHANGED <<transports, last, runnerVars, inflight, prevError,
                                       nrequests, permVars, validateVars, buildVars, stdioProc, wrapperProc>>
               ELSE /\ SessionAnswer(request,
                                     HttpError(500, "", "Error processing session termination"))
                    /\ UNCHANGED <<transports, httpProc>>

\* The transport of session sid closes and calls its onclose handler; an
\* exception of the handler is uncaught.
Closed(p, sid, result, caller) ==
    [p EXCEPT !.closed = IF result.map # transports THEN @ \cup {sid} ELSE @,
              !.reclosed = IF sid \in transports THEN @ ELSE <<sid, caller>>,
              !.uncaught = @ \/ result.threw]

\* mcpDeleteHandler after its await: the transport terminated the session.
HttpDeleteDone ==
    /\ ProcessAlive("http")
    /\ \E sid \in httpProc.deleting :
           LET result == onclose(transports, sid)
           IN  /\ transports' = result.map
               /\ httpProc' = [Closed(httpProc, sid, result, "DELETE") EXCEPT !.deleting = @ \ {sid}]
               /\ SessionAnswer(SessionRequest("DELETE", sid, "", TRUE), Terminated)

\* A transport closes without a DELETE (its client went away); it may be
\* one that has closed before.
TransportClosed ==
    /\ ProcessAlive("http")
    /\ \E binding \in httpProc.bindings :
           LET result == onclose(transports, binding[1])
           IN  /\ transports' = result.map
               /\ httpProc' = Closed(httpProc, binding[1], result, "transport")
    /\ UNCHANGED <<last, runnerVars, inflight, prevError, nrequests,
                   permVars, validateVars, buildVars, stdioProc, wrapperProc>>

\* process.on('SIGTERM' / 'SIGINT') (src/unnamed/part_001:497-498)
HttpSignal ==
    /\ httpProc.phase = "running"
    /\ httpProc' = gracefulShutdown(httpProc, transports)
    /\ UNCHANGED <<transports, last, runnerVars, inflight, prevError, nrequests,
                   permVars, validateVars, buildVars, stdioProc, wrapperProc>>

\* What await transports[sessionId].close() can do: resolve after onclose
\* ran, reject before onclose ran, reject after it ran.
CloseOutcomes == {"resolved", "rejected", "rejected late"}

\* One turn of the loop of gracefulShutdown (src/unnamed/part_001:474-482):
\* a key deleted since the loop began is not visited; the await settles; the
\* catch block logs.  After the last key the function runs on to
\* server.close and setTimeout.
CloseNextUntilFailure(p, rest) ==
    IF rest = <<>> \/ p.threw # {} THEN CloseListener([p EXCEPT !.todo = <<>>])
    ELSE [p EXCEPT !.todo = rest]

CloseNext(p, rest) == IF rest = <<>> THEN CloseListener([p EXCEPT !.todo = rest])
                      ELSE [p EXCEPT !.todo = rest]

ShutdownLoop ==
    /\ httpProc.phase = "closing"
    /\ LET sessionId == Head(httpProc.todo)
           rest      == Tail(httpProc.todo)
       IN  IF sessionId \notin transports
               THEN /\ httpProc' = CloseNext(httpProc, rest)
                    /\ UNCHANGED transports
           ELSE \E outcome \in CloseOutcomes :
                    LET result == IF outcome = "rejected"
                                      THEN [map |-> transports, threw |-> FALSE]
                                  ELSE onclose(transports, sessionId)
                        tried  == [Closed(httpProc, sessionId, result, "shutdown")
                                      EXCEPT !.tried = @ \cup {sessionId},
                                             !.threw = IF outcome = "resolved" THEN @
                                                       ELSE @ \cup {sessionId}]
                    IN  /\ transports' = result.map
                        /\ httpProc' = CloseNext(tried, rest)
    /\ UNCHANGED <<last, runnerVars, inflight, prevError, nrequests,
                   permVars, validateVars, buildVars, stdioProc, wrapperProc>>

\* process.exit(code)
Exit(p, code) == [p EXCEPT !.phase = "exited", !.exit = <<code>>, !.timer = "none"]

\* The callback of server.close (src/unnamed/part_001:485-488): it runs once
\* no connection is open; a request being dispatched holds one.
ListenerClosed ==
    /\ httpProc.phase = "draining"
    /\ ~(inflight.kind = "dispatch" /\ inflight.request.via = "http")
    /\ httpProc.deleting = {}
    /\ httpProc' = Exit(httpProc, 0)
    /\ UNCHANGED <<transports, last, runnerVars, inflight, prevError, nrequests,
                   permVars, validateVars, buildVars, stdioProc, wrapperProc>>

\* The force timer (src/unnamed/part_001:491-494).
ForceExit ==
    /\ httpProc.phase = "draining"
    /\ httpProc.timer = "armed"
    /\ httpProc' = Exit(httpProc, 1)
    /\ UNCHANGED <<transports, last, runnerVars, inflight, prevError, nrequests,
                   permVars, validateVars, buildVars, stdioProc, wrapperProc>>

NextSessions ==
    \/ HttpInitialize
    \/ HttpBadRequest
    \/ HttpPostFault
    \/ HttpGet
    \/ HttpDelete
    \/ HttpDeleteDone
    \/ TransportClosed
    \/ HttpSignal
    \/ ShutdownLoop
    \/ ListenerClosed
    \/ ForceExit

SpecHttp == Init /\ [][NextSessions]_vars

\* The HTTP server with its dispatches, and with the timers' callbacks run
\* once they are due: the runner's timeout and the force timer of
\* gracefulShutdown.  Nothing makes a transport's close() settle or the
\* listener's last connection end.
NextHttp ==
    \/ HttpInitialize
    \/ HttpCallTool
    \/ HttpBadRequest
    \/ HttpPostFault
    \/ HttpGet
    \/ HttpDelete
    \/ HttpDeleteDone
    \/ TransportClosed
    \/ HttpSignal
    \/ ShutdownLoop
    \/ ListenerClosed
    \/ ForceExit
    \/ \E i \in CallIds : ChildClose(i)
    \/ \E i \in CallIds : ChildError(i)
    \/ \E i \in CallIds : TimerFire(i)

SpecHttpLive ==
    /\ Init
    /\ [][NextHttp]_vars
    /\ WF_vars(ForceExit)
    /\ \A i \in CallIds : WF_vars(TimerFire(i))

(***************************************************************************)
(* SpecWrapper: the wrapper's MCP endpoint and the runner, with callers    *)
(* that may close their connection while the dispatch is in flight.        *)
(***************************************************************************)
\* What closing the caller's connection does to a call of the runner:
\* handleMcpEndpoint registers no listener for the request's or the
\* response's close event (src/unnamed/part_004:513-711) and executeCommand
\* takes no abort signal (src/src/utils/command.ts:40-69).
OnClientCloseKill(c) == IF c.child = "running" THEN [c EXCEPT !.sigterm = TRUE] ELSE c

OnClientClose(c) == c

\* The caller of the request in flight closes its connection.  What is
\* written to the response from then on is dropped.
ClientDisconnect ==
    /\ ProcessAlive("wrapper")
    /\ inflight.kind = "dispatch"
    /\ inflight.request.via = "wrapper"
    /\ inflight.client = "connected"
    /\ inflight' = [inflight EXCEPT !.client = "gone"]
    /\ calls' = [i \in CallIds |-> OnClientClose(calls[i])]
    /\ UNCHANGED <<ncalls, last>>
    /\ Quiet

NextWrapper ==
    \/ WrapperCallTool
    \/ WrapperBadRequest
    \/ ClientDisconnect
    \/ \E i \in CallIds : ChildStdout(i)
    \/ \E i \in CallIds : ChildStderr(i)
    \/ \E i \in CallIds : ChildClose(i)
    \/ \E i \in CallIds : ChildError(i)
    \/ \E i \in CallIds : TimerFire(i)

SpecWrapper == Init /\ [][NextWrapper]_vars

\* The same, with what the event loop is sure to run: the callbacks of due
\* timers, and the error event of a spawn that failed (emitted on the next
\* tick).  Nothing is assumed of a child that runs: it may never close.
SpecWrapperFair ==
    /\ Init
    /\ [][NextWrapper]_vars
    /\ \A i \in CallIds : WF_vars(TimerFire(i))
    /\ \A i \in CallIds : WF_vars(ChildError(i))

(***************************************************************************)
(* SpecStdio: the stdio server with its signal handlers.  The event loop   *)
(* runs the callbacks of due timers, and the promise of server.close()     *)
(* resolves: closing the stdio transport only detaches listeners from      *)
(* stdin.                                                                  *)
(***************************************************************************)
\* The signal handler after await server.close(): process.exit(0)
\* (src/src/index.ts:188, 194).
AfterServerCloseStay(p) == [p EXCEPT !.server = "closed"]

AfterServerClose(p) == [p EXCEPT !.server = "closed", !.phase = "exited", !.exit = <<0>>]

\* process.on("SIGINT" / "SIGTERM") up to the await (src/src/index.ts:185-187,
\* 191-193): server.close() is called and the transport stops reading.
StdioSignal ==
    /\ stdioProc.phase = "running"
    /\ stdioProc' = [stdioProc EXCEPT !.phase = "closing"]
    /\ UNCHANGED <<runnerVars, dispatchVars, permVars, validateVars, buildVars, httpProc, wrapperProc>>

\* The promise of server.close() resolves and the handler runs on.
StdioClosed ==
    /\ stdioProc.phase = "closing"
    /\ stdioProc' = AfterServerClose(stdioProc)
    /\ UNCHANGED <<runnerVars, dispatchVars, permVars, validateVars, buildVars, httpProc, wrapperProc>>

NextStdio ==
    \/ StdioCallTool
    \/ StdioSignal
    \/ StdioClosed
    \/ \E i \in CallIds : ChildStdout(i)
    \/ \E i \in CallIds : ChildStderr(i)
    \/ \E i \in CallIds : ChildClose(i)
    \/ \E i \in CallIds : ChildError(i)
    \/ \E i \in CallIds : TimerFire(i)

SpecStdio ==
    /\ Init
    /\ [][NextStdio]_vars
    /\ WF_vars(StdioClosed)
    /\ \A i \in CallIds : WF_vars(TimerFire(i))

(***************************************************************************)
(* SpecWrapperLive: the wrapper's MCP child, its restart, and the          *)
(* wrapper's gracefulShutdown.  The event loop runs the callbacks of due   *)
(* timers; nothing makes the listener's last connection end.               *)
(***************************************************************************)
RestartDelay == 5000
ForceKillDelay == 5000
StartupDelay == 1000

TimerDelay(name) ==
    CASE name = "restart" -> RestartDelay
      [] name = "force"   -> ForceKillDelay
      [] name = "health"  -> StartupDelay

\* The k-th pending timer may run now: no timer set before it is due
\* earlier or at the same time.
Due(timers, k) == \A j \in 1..(k - 1) : TimerDelay(timers[j]) > TimerDelay(timers[k])

\* The pending timers without the k-th.
Cancel(timers, k) == SubSeq(timers, 1, k - 1) \o SubSeq(timers, k + 1, Len(timers))

\* The exit events of the child: a code, or null and the signal that ended it.
ChildExitStatuses ==
    {[code |-> <<c>>, signal |-> "none"] : c \in {0, 1}}
        \cup {[code |-> <<>>, signal |-> sig] : sig \in {"SIGTERM", "SIGINT", "SIGKILL"}}

\* code !== 0 && signal !== "SIGTERM" && signal !== "SIGINT"
\* (src/unnamed/part_004:272)
ShouldRestartAlways(status) == TRUE

ShouldRestart(status) ==
    status.code # <<0>> /\ status.signal # "SIGTERM" /\ status.signal # "SIGINT"

\* mcpProcess.on("exit") (src/unnamed/part_004:265-279)
OnChildExit(p, status) ==
    [p EXCEPT !.child = "exited", !.status = status, !.healthy = FALSE,
              !.timers = IF ShouldRestart(status) THEN Append(@, "restart") ELSE @]

\* startMcpServer (src/unnamed/part_004:251-305): a new child in mcpProcess
\* and the start-up timer.  The spawn of node by a node process is taken
\* to succeed.
startMcpServer(p) ==
    [p EXCEPT !.child = "running", !.killed = FALSE, !.status = NoStatus,
              !.starts = @ + 1, !.timers = Append(@, "health")]

\* mcpProcess.kill(signal): killed is set when the signal was delivered.
Kill(p) == [p EXCEPT !.killed = @ \/ p.child = "running"]

\* The callback of httpServer.close (src/unnamed/part_004:781-799).
OnListenerClosed(p) ==
    IF ~p.killed
        THEN [Kill(p) EXCEPT !.phase = "stopping", !.timers = Append(@, "force")]
    ELSE [p EXCEPT !.phase = "exited", !.exit = <<0>>, !.timers = <<>>]

WrapperQuiet ==
    UNCHANGED <<runnerVars, dispatchVars, permVars, validateVars, buildVars, stdioProc, httpProc>>

\* The MCP child exits, on its own or because it was signalled.
McpChildExit ==
    /\ ProcessAlive("wrapper")
    /\ wrapperProc.child = "running"
    /\ \E status \in ChildExitStatuses :
           /\ ShouldRestart(status) => wrapperProc.starts < MaxStarts
           /\ wrapperProc' = OnChildExit(wrapperProc, status)
    /\ WrapperQuiet

\* The timer set by the exit handler (src/unnamed/part_004:274-276).
RestartTimer ==
    /\ ProcessAlive("wrapper")
    /\ \E k \in 1..Len(wrapperProc.timers) :
           /\ wrapperProc.timers[k] = "restart"
           /\ Due(wrapperProc.timers, k)
           /\ wrapperProc' = startMcpServer([wrapperProc EXCEPT
                                                !.timers = Cancel(@, k)])
    /\ WrapperQuiet

\* The timer set by startMcpServer (src/unnamed/part_004:291-299).
HealthTimer ==
    /\ ProcessAlive("wrapper")
    /\ \E k \in 1..Len(wrapperProc.timers) :
           /\ wrapperProc.timers[k] = "health"
           /\ Due(wrapperProc.timers, k)
           /\ wrapperProc' = [wrapperProc EXCEPT !.timers = Cancel(@, k),
                                                 !.healthy = IF wrapperProc.killed THEN @
                                                             ELSE TRUE]
    /\ WrapperQuiet

\* gracefulShutdown (src/unnamed/part_004:776-780), on SIGTERM or SIGINT
\* (831-832).
WrapperSignal ==
    /\ wrapperProc.phase = "running"
    /\ wrapperProc' = [wrapperProc EXCEPT !.healthy = FALSE, !.phase = "draining"]
    /\ WrapperQuiet

\* The listener has closed: no connection is open any more.
WrapperListenerClosed ==
    /\ wrapperProc.phase = "draining"
    /\ ~(inflight.kind = "dispatch" /\ inflight.request.via = "wrapper")
    /\ wrapperProc' = OnListenerClosed(wrapperProc)
    /\ WrapperQuiet

\* The timer set in the callback of httpServer.close
\* (src/unnamed/part_004:790-796): SIGKILL if need be, then process.exit(0).
WrapperForceTimer ==
    /\ wrapperProc.phase = "stopping"
    /\ \E k \in 1..Len(wrapperProc.timers) :
           /\ wrapperProc.timers[k] = "force"
           /\ Due(wrapperProc.timers, k)
           /\ wrapperProc' = [Kill(wrapperProc) EXCEPT !.phase = "exited",
                                                       !.exit = <<0>>,
                                                       !.timers = <<>>]
    /\ WrapperQuiet

NextWrapperLife ==
    \/ McpChildExit
    \/ RestartTimer
    \/ HealthTimer
    \/ WrapperSignal
    \/ WrapperListenerClosed
    \/ WrapperForceTimer

SpecWrapperLive ==
    /\ Init
    /\ [][NextWrapperLife]_vars
    /\ WF_vars(RestartTimer)
    /\ WF_vars(HealthTimer)
    /\ WF_vars(WrapperForceTimer)

(***************************************************************************)
(* C5: buildPermissionArgs keeps length and order; a token starting with   *)
(* "--" is unchanged, each of the nine symbolic names becomes its          *)
(* --allow-<name> flag, any other token is passed through; so a list of    *)
(* literal flags only is returned unchanged and translating twice equals   *)
(* translating once.                                                       *)
(***************************************************************************)
SymbolicNames == {"read", "write", "net", "env", "run", "ffi", "hrtime", "sys", "all"}

ExpectedFlag(token) ==
    IF StartsWith(token, "--") THEN token
    ELSE IF token \in SymbolicNames THEN "--allow-" \o token
    ELSE token

C5_Translation ==
    /\ permOut # None =>
         /\ Len(permOut) = Len(permIn)
         /\ \A i \in 1..Len(permIn) : permOut[i] = ExpectedFlag(permIn[i])
         /\ (\A i \in 1..Len(permIn) : StartsWith(permIn[i], "--")) => permOut = permIn
    /\ permOut2 # None => permOut2 = permOut

\* A mixed list (a shorthand, a literal flag and an unknown token) translated twice.
C5_Witness ==
    /\ permOut2 # None
    /\ Len(permIn) = 3
    /\ \E i, j, k \in 1..3 :
         /\ permIn[i] = "hrtime"
         /\ StartsWith(permIn[j], "--")
         /\ permIn[k] = "allow-net"
    /\ permOut # permIn

(***************************************************************************)
(* C6: validation fails with InvalidParams exactly when a required key is  *)
(* absent (the message names that key) or a present key declared string,   *)
(* number, boolean or array holds a value of another kind (the message     *)
(* names the key and the declared kind); otherwise, undeclared keys and    *)
(* nested values included, validation passes and the handler is invoked.   *)
(***************************************************************************)
CheckedKinds == {"string", "number", "boolean", "array"}

RequiredKeys(schema) == {schema.required[i] : i \in 1..Len(schema.required)}

MissingKeys(args, schema) == {k \in RequiredKeys(schema) : ~HasKey(args, k)}

MismatchedKeys(args, schema) ==
    {k \in DOMAIN schema.properties :
        /\ HasKey(args, k)
        /\ schema.properties[k] \in CheckedKinds
        /\ ValueOf(args, k).kind # schema.properties[k]}

C6_Validation ==
    vOutcome # NoOutcome =>
        LET schema     == ToolSchema(vTool)
            missing    == MissingKeys(vArgs, schema)
            mismatched == MismatchedKeys(vArgs, schema)
        IN  IF missing = {} /\ mismatched = {}
                THEN vOutcome = HandlerInvoked
            ELSE /\ vOutcome.kind = "McpError"
                 /\ vOutcome.code = "InvalidParams"
                 /\ \/ \E k \in missing :
                          /\ Contains(vOutcome.message, "Missing required parameter")
                          /\ Contains(vOutcome.message, k)
                    \/ \E k \in mismatched :
                          /\ Contains(vOutcome.message, "Parameter " \o k \o " must be")
                          /\ Contains(vOutcome.message, schema.properties[k])

\* An undeclared key followed by a declared key of the wrong kind is rejected,
\* naming the declared key.
C6_Witness ==
    /\ vTool = "deno_run"
    /\ Len(vArgs) = 2
    /\ vArgs[1][1] = "timeout"
    /\ vArgs[2] = <<"script", [kind |-> "number", items |-> None]>>
    /\ vOutcome.kind = "McpError"
    /\ vOutcome.message = "Parameter script must be a string"

(***************************************************************************)
(* C1: every executeCommand call delivers at most one outcome, under every *)
(* interleaving of close, error and the timer: what the awaiting caller    *)
(* was given is given once, and the promise never changes after it, so a   *)
(* call never yields both a result and an error, or two different errors.  *)
(***************************************************************************)
C1_AtMostOneOutcome ==
    \A i \in CallIds :
        /\ Len(calls[i].delivered) <= 1
        /\ calls[i].promise.state = "pending" <=> calls[i].delivered = <<>>
        /\ calls[i].delivered # <<>> => calls[i].delivered[1] = calls[i].promise

\* A call on which both the close handler and the timer callback ran.
C1_Witness ==
    \E i \in CallIds :
        /\ calls[i].child = "closed"
        /\ calls[i].timer = "fired"
        /\ Len(calls[i].delivered) = 1

(***************************************************************************)
(* C2: a call with timeout T > 0 whose child was spawned and has not       *)
(* closed eventually rejects with TimedOut unless the child closes first;  *)
(* it does not stay pending, whether or not the child ever ends after the  *)
(* termination signal.                                                     *)
(***************************************************************************)
\* The call waits on a running child with a timeout set.
AwaitsWithTimeout(c) ==
    c.child = "running" /\ c.timeout > 0 /\ c.promise.state = "pending"

TimedOutOrClosed(c) ==
    c.child = "closed" \/ (c.promise.state = "rejected" /\ IsTimedOut(c.promise.value))

C2_EventuallyTimedOut ==
    \A i \in CallIds : AwaitsWithTimeout(calls[i]) ~> TimedOutOrClosed(calls[i])

\* TimedOut was reported and the child, sent SIGTERM, is still running.
C2_Witness ==
    \E i \in CallIds :
        /\ calls[i].child = "running"
        /\ calls[i].sigterm
        /\ calls[i].promise.state = "rejected"
        /\ IsTimedOut(calls[i].promise.value)
        /\ calls[i].promise.value.code = 124

(***************************************************************************)
(* C3: a child that closes with exit code c before the timer fires: for    *)
(* c = 0 the call resolves with success = true, code = 0 and all of the    *)
(* captured stdout and stderr; for c # 0 it rejects with ProcessFailed     *)
(* carrying exactly c and both captured streams.                           *)
(***************************************************************************)
RECURSIVE Repeat(_, _)
Repeat(chunk, n) == IF n = 0 THEN "" ELSE chunk \o Repeat(chunk, n - 1)

\* Everything the child wrote to its two streams.
WrittenStdout(c) == Repeat(StdoutChunk, c.nout)
WrittenStderr(c) == Repeat(StderrChunk, c.nerr)

\* The child ran and closed with an exit code, and the timer has not fired.
ClosedWithCode(c) ==
    /\ c.child = "closed"
    /\ ~c.status.signal
    /\ c.status.code \in ExitCodes
    /\ c.timer # "fired"

C3_ExitCodeMapping ==
    \A i \in CallIds :
        ClosedWithCode(calls[i]) =>
            LET c == calls[i]
                v == c.promise.value
            IN  /\ v.stdout = WrittenStdout(c)
                /\ v.stderr = WrittenStderr(c)
                /\ v.code = c.status.code
                /\ IF c.status.code = 0
                       THEN /\ c.promise.state = "fulfilled"
                            /\ v.kind = "DenoCommandResult"
                            /\ v.success
                   ELSE /\ c.promise.state = "rejected"
                        /\ IsProcessFailed(v)

\* deno_version: the first call printed "ok" and exited 0, the second
\* printed "bad flag" on stderr and exited 2.
C3_Witness ==
    /\ ClosedWithCode(calls[1])
    /\ calls[1].status.code = 0
    /\ calls[1].promise.value.stdout = "ok"
    /\ ClosedWithCode(calls[2])
    /\ calls[2].status.code = 2
    /\ calls[2].promise.value.stderr = "bad flag"

(***************************************************************************)
(* C4: when process creation fails the call rejects with SpawnFailed from  *)
(* the error event, before the timer can fire, with empty stdout and       *)
(* stderr; it never resolves and never reports TimedOut, whatever runs     *)
(* later.                                                                  *)
(***************************************************************************)
\* The error event of a failed spawn has been handled.
SpawnFailureHandled(c) ==
    c.child = "errored" \/ (c.child = "closed" /\ c.status = SpawnErrno)

C4_SpawnFailure ==
    \A i \in CallIds :
        /\ calls[i].child = "failed" =>
               /\ calls[i].timer # "fired"
               /\ calls[i].promise.state = "pending"
        /\ SpawnFailureHandled(calls[i]) =>
               /\ calls[i].promise.state = "rejected"
               /\ IsSpawnFailed(calls[i].promise.value)
               /\ calls[i].promise.value.stdout = ""
               /\ calls[i].promise.value.stderr = ""
               /\ calls[i].delivered = <<calls[i].promise>>

\* A failed spawn on which error, close and the timer callback have all run.
C4_Witness ==
    \E i \in CallIds :
        /\ SpawnFailureHandled(calls[i])
        /\ calls[i].child = "closed"
        /\ calls[i].timer = "fired"
        /\ IsSpawnFailed(calls[i].promise.value)

(***************************************************************************)
(* C7: a tools/call naming an unknown tool is answered MethodNotFound, a   *)
(* call with invalid arguments InvalidParams; and every answer that is a   *)
(* lookup or validation failure (MethodNotFound, InvalidParams, the 400 of *)
(* an unknown session, a malformed or invalid payload) is given in the     *)
(* step that received the request, in which no executeCommand call is made *)
(* and the session map stays as it was.                                    *)
(***************************************************************************)
\* A lookup or validation failure, as the caller sees it.
IsRefusal(response) ==
    \/ response.kind = "McpError" /\ response.code \in {"MethodNotFound", "InvalidParams"}
    \/ response.kind = "HttpError"

\* The arguments are an object that validation must reject.
InvalidArguments(request) ==
    LET args == ArgsOrEmpty(request.arguments)
    IN  /\ args.kind = "object"
        /\ \/ MissingKeys(args.entries, ToolSchema(request.name)) # {}
           \/ MismatchedKeys(args.entries, ToolSchema(request.name)) # {}

ThrowsUntyped(request) ==
    /\ request.name \in Catalogue
    /\ request.arguments.kind = "string"
    /\ request.arguments.text # ""
    /\ ToolSchema(request.name).required # <<>>

\* The message of that TypeError.
UntypedMessage(request) ==
    "Cannot use 'in' operator to search for '" \o ToolSchema(request.name).required[1]
        \o "' in " \o request.arguments.text

SameButText(r1, r2) ==
    /\ r1.kind = "tools/call" /\ r2.kind = "tools/call"
    /\ r1.via = r2.via
    /\ r1.name = r2.name
    /\ ThrowsUntyped(r1) /\ ThrowsUntyped(r2)

C9_MessageIndependent ==
    (/\ prevError.kind = "record"
     /\ last.kind = "record"
     /\ SameButText(prevError.request, last.request)) =>
        last.response = prevError.response

(***************************************************************************)
(* C10: when the executeCommand call of deno_run rejects (ProcessFailed,   *)
(* SpawnFailed or TimedOut) the handler returns a result with isError set  *)
(* whose text holds the error's message and the captured stdout and        *)
(* stderr (N/A for an empty one); when it resolves the handler returns the *)
(* formatted report with isError unset.  The dispatcher never sees a throw.*)
(***************************************************************************)
\* The last finished dispatch ran deno_run's executeCommand call.
RanDenoRun ==
    /\ last.kind = "record"
    /\ last.request.kind = "tools/call"
    /\ last.request.name = "deno_run"
    /\ last.spawns = 1

OrNA(text) == IF text = "" THEN "N/A" ELSE text

ClientError(response) ==
    response.kind = "HttpError" /\ response.status >= 400 /\ response.status <= 499

\* The finished request came over HTTP, was no handshake without an id, and
\* carried no id or an id that was not a key of the map.
Unrecognised(record) ==
    /\ record.kind = "record"
    /\ record.request.via = "http"
    /\ \/ record.request.kind = "session" /\ ~record.request.open
       \/ /\ record.request.kind = "other"
          /\ ~(record.request.session = "" /\ record.request.body = "initialize")

C11_UnknownIdRejected ==
    Unrecognised(last) => ClientError(last.response) /\ last.spawns = 0

(***************************************************************************)
(* C12 (amended): closing is idempotent in its effect on the session map.  *)
(* The close handler of a transport, run again for a session that is gone, *)
(* changes nothing and throws nothing; a closed key is never in the map,   *)
(* also when a transport's own close and a DELETE for the same session     *)
(* overlap; a DELETE request whose id is not a key of the map changes      *)
(* nothing and is answered with an error status, not with success.         *)
(***************************************************************************)
\* The finished request is a DELETE whose id was not a key of the map.
DeleteOfAbsent(record) ==
    /\ record.kind = "record"
    /\ record.request.kind = "session"
    /\ record.request.method = "DELETE"
    /\ ~record.request.open

C12_CloseIdempotent ==
    [][/\ ~httpProc'.uncaught
       /\ httpProc'.closed \cap transports' = {}
       /\ httpProc'.reclosed # httpProc.reclosed =>
              httpProc'.reclosed[1] \notin transports /\ transports' = transports
       /\ (DeleteOfAbsent(last') /\ last' # last) =>
              /\ last'.response.kind = "HttpError"
              /\ last'.response.status >= 400
              /\ transports' = transports
              /\ httpProc' = httpProc]_vars

\* A DELETE that was accepted found its session closed by the transport in
\* the meantime, and was answered.
C12_Witness ==
    /\ httpProc.reclosed # <<>>
    /\ httpProc.reclosed[2] = "DELETE"
    /\ last.kind = "record"
    /\ last.response = Terminated
    /\ last.request.session = httpProc.reclosed[1]
    /\ httpProc.reclosed[1] \notin transports

\* C12 as stated: closing a session that is closed already or unknown
\* reports no error.
C12_CloseIsSilent ==
    DeleteOfAbsent(last) => last.response.kind # "HttpError"

(***************************************************************************)
(* C13: a session id stays bound to one session.  No key of the map is     *)
(* ever stored for two transports; a key that onclose removed never        *)
(* returns to the map; every route refuses such a key, and a request that  *)
(* arrives with it is answered with an error.                              *)
(***************************************************************************)
\* The step answered a request that arrived with a key closed before.
AnsweredClosed ==
    /\ last' # last
    /\ last'.kind = "record"
    /\ last'.request.session \in httpProc.closed
    /\ \/ last'.request.kind = "other" /\ last'.request.via = "http"
       \/ last'.request.kind = "session" /\ ~last'.request.open

\* Every route refuses the key: POST takes the else branch whatever the
\* body, and the lookup of GET and DELETE fails.
Refused(map, key) ==
    /\ ~Lookup(map, key)
    /\ \A body \in {"initialize", "tools/call"} : PostRoute(map, key, body) = "refuse"

C13_IdentifierBoundOnce ==
    [][/\ \A b1, b2 \in httpProc'.bindings : b1[1] = b2[1] => b1[2] = b2[2]
       /\ \A key \in httpProc.closed : key \notin transports'
       /\ AnsweredClosed => last'.response.kind = "HttpError"
       /\ \A key \in httpProc'.closed : Refused(transports', key)]_vars

\* Two sessions were issued, one was closed, and a request with its key
\* was refused.
C13_Witness ==
    /\ Cardinality(httpProc.bindings) = 2
    /\ last.kind = "record"
    /\ last.request.kind = "session"
    /\ last.request.session \in httpProc.closed
    /\ last.response.kind = "HttpError"

(***************************************************************************)
(* C14 (amended): once gracefulShutdown is past its loop, and so whenever  *)
(* the process has exited, every session that was in the map when the      *)
(* shutdown began has had its close awaited or was closed otherwise; each  *)
(* one whose close succeeded is out of the map; one that is still in the   *)
(* map is one whose close failed.  A failed close does not end the loop.   *)
(***************************************************************************)
PastTheLoop == httpProc.phase \in {"draining", "exited"}

C14_SessionsClosedAtExit ==
    PastTheLoop =>
        \A key \in httpProc.atSignal :
            /\ key \in httpProc.tried \/ key \in httpProc.closed
            /\ key \in httpProc.tried \ httpProc.threw => key \notin transports
            /\ key \in transports => key \in httpProc.threw

\* The process exited after the close of the first session failed and the
\* close of the second succeeded.
C14_Witness ==
    /\ httpProc.phase = "exited"
    /\ httpProc.atSignal = {SessionId(1), SessionId(2)}
    /\ SessionId(1) \in httpProc.threw
    /\ SessionId(1) \in transports
    /\ SessionId(2) \in httpProc.tried \ httpProc.threw
    /\ SessionId(2) \notin transports

\* C14 as stated: when the process has exited no session is in the map.
C14_NoSessionOpenAtExit == httpProc.phase = "exited" => transports = {}

(***************************************************************************)
(* C15: once the HTTP server has received a termination signal it          *)
(* eventually exits, also when closing a session never completes.          *)
(***************************************************************************)
C15_EventuallyExits ==
    (httpProc.phase \in {"closing", "draining"}) ~> (httpProc.phase = "exited")

(***************************************************************************)
(* C16: the stream of a wrapper request that invokes a tool carries        *)
(* connected, progress while the dispatch runs, and when it has ended      *)
(* either connected, progress, response, complete (the dispatcher          *)
(* returned) or connected, progress, error (it threw): never response and  *)
(* error together, and complete or error is the last event.                *)
(***************************************************************************)
IsEvent(events, n, name) == n <= Len(events) /\ events[n] = name

Occurrences(events, name) == Cardinality({n \in 1..Len(events) : events[n] = name})

CanonicalStream(events, failed) ==
    /\ IsEvent(events, 1, "connected")
    /\ IsEvent(events, 2, "progress")
    /\ IF failed
           THEN /\ Len(events) = 3
                /\ IsEvent(events, 3, "error")
                /\ Occurrences(events, "response") = 0
       ELSE /\ Len(events) = 4
            /\ IsEvent(events, 3, "response")
            /\ IsEvent(events, 4, "complete")
            /\ Occurrences(events, "error") = 0

WrapperToolCall(request) == request.kind = "tools/call" /\ request.via = "wrapper"

C16_EventOrder ==
    /\ (inflight.kind = "dispatch" /\ WrapperToolCall(inflight.request)) =>
           inflight.events = <<"connected", "progress">>
    /\ (last.kind = "record" /\ WrapperToolCall(last.request)) =>
           CanonicalStream(last.events, last.response.kind = "McpError")

\* A dispatch that ran a child ended with response and complete, after a
\* request whose stream ended with error.
C16_Witness ==
    /\ last.kind = "record"
    /\ WrapperToolCall(last.request)
    /\ last.spawns > 0
    /\ last.events = <<"connected", "progress", "response", "complete">>
    /\ prevError.kind = "record"
    /\ WrapperToolCall(prevError.request)
    /\ prevError.events = <<"connected", "progress", "error">>

(***************************************************************************)
(* C18: when the caller of a wrapper dispatch closes its connection, the   *)
(* calls of the runner are left as they are; a child is only ever sent     *)
(* SIGTERM by its own timer; the dispatch stays in flight until a callback *)
(* of its call settles the promise, and then ends as any other: the        *)
(* answer is written to the closed connection and the wrapper runs on.     *)
(***************************************************************************)
Disconnected == inflight.kind = "dispatch" /\ inflight.client = "gone"

C18_DisconnectDoesNotCancel ==
    [][/\ (inflight.kind = "dispatch" /\ ~Disconnected /\ Disconnected') => calls' = calls
       /\ \A i \in CallIds : calls'[i].sigterm => calls'[i].timer = "fired"
       /\ (Disconnected /\ ~Disconnected') =>
              /\ inflight' = NoRequest
              /\ calls[inflight.call].promise.state = "pending"
              /\ calls'[inflight.call].promise.state # "pending"
              /\ calls'[inflight.call].child = "closed"
                     \/ calls'[inflight.call].child = "errored"
                     \/ calls'[inflight.call].timer = "fired"
              /\ last'.kind = "record"
              /\ last'.request = inflight.request
              /\ last'.client = "gone"
              /\ last'.spawns > 0
              /\ wrapperProc' = wrapperProc
              /\ wrapperProc.phase = "running"]_vars

\* A caller went away, and its child ran on until it exited with code 0;
\* the result was written to the closed connection.
C18_Witness ==
    /\ last.kind = "record"
    /\ last.client = "gone"
    /\ last.response.kind = "result"
    /\ ~last.response.isError
    /\ \E i \in CallIds : calls[i].child = "closed" /\ ~calls[i].sigterm
    /\ wrapperProc.phase = "running"

(***************************************************************************)
(* C19: once the stdio server has received SIGTERM or SIGINT it eventually *)
(* exits; whenever it has exited, the protocol server was closed first and *)
(* the exit code is 0.                                                     *)
(***************************************************************************)
C19_SignalExits ==
    /\ [](stdioProc.phase = "exited" =>
              stdioProc.server = "closed" /\ stdioProc.exit = <<0>>)
    /\ (stdioProc.phase = "closing") ~> (stdioProc.phase = "exited")

\* The server exited with code 0 while a dispatch was waiting for a child
\* that was still running.
C19_Witness ==
    /\ stdioProc.phase = "exited"
    /\ stdioProc.exit = <<0>>
    /\ inflight.kind = "dispatch"
    /\ calls[inflight.call].child = "running"

(***************************************************************************)
(* C20: in the wrapper, a new MCP child is started only after the child in *)
(* place exited with a code other than 0 and not through SIGTERM or        *)
(* SIGINT; and after every such exit a new child is eventually started, as *)
(* long as the wrapper itself has not exited before the delay is over.     *)
(***************************************************************************)
CleanExit(status) == status.code = <<0>> \/ status.signal \in {"SIGTERM", "SIGINT"}

CrashedChild == wrapperProc.child = "exited" /\ ~CleanExit(wrapperProc.status)

ReportsTimedOut(i) ==
    /\ calls[i].promise.state = "pending"
    /\ calls'[i].promise.state = "rejected"
    /\ IsTimedOut(calls'[i].promise.value)

C21_TimedOutAfterExit ==
    [][\A i \in CallIds :
           ReportsTimedOut(i) =>
               /\ calls'[i].sigterm
               /\ calls'[i].child = "closed"
               /\ calls'[i].promise.value.stdout = calls[i].stdout
               /\ calls'[i].promise.value.stderr = calls[i].stderr]_vars

(***************************************************************************)
(* C22: the identifier of a new session is in the session map when the     *)
(* handshake response becomes observable, and it stays there until the     *)
(* session is closed: every request that arrives with an identifier that   *)
(* was issued and not closed finds the session.                            *)
(***************************************************************************)
\* The handshake response of this step, if the step sent one.
HandshakeAnswered ==
    /\ last' # last
    /\ last'.kind = "record"
    /\ last'.response.kind = "initialized"

\* The identifiers handed out in handshake responses and not closed since.
IssuedOpen(p) == {b[1] : b \in p.bindings} \ p.closed

\* A GET of this step that carried an identifier issued and not closed.
FollowUp ==
    /\ last' # last
    /\ last'.kind = "record"
    /\ last'.request.kind = "session"
    /\ last'.request.method = "GET"
    /\ last'.request.session \in IssuedOpen(httpProc)

C22_RegisteredBeforeResponse ==
    [][/\ HandshakeAnswered => last'.response.session \in transports'
       /\ IssuedOpen(httpProc') \subseteq transports'
       /\ \A sid \in IssuedOpen(httpProc') : Lookup(transports', sid)
       /\ FollowUp => last'.request.open /\ last'.response = StreamOpened]_vars

\* A GET that followed the handshake of its session was given its stream.
C22_Witness ==
    /\ last.kind = "record"
    /\ last.request.kind = "session"
    /\ last.request.method = "GET"
    /\ last.request.session \in IssuedOpen(httpProc)
    /\ last.response = StreamOpened

(***************************************************************************)
(* C23: on shutdown of the server process every child of a call of the     *)
(* runner that is still in flight is sent a termination signal before the  *)
(* process exits: when the stdio server has exited, no call it started has *)
(* a child that still runs and was never signalled.                        *)
(***************************************************************************)
\* Call i of the server behind via has a child that runs unsignalled.
RunsUnsignalled(i, via) ==
    /\ i <= ncalls
    /\ calls[i].owner = via
    /\ calls[i].child = "running"
    /\ ~calls[i].sigterm

C23_ChildrenSignalledAtExit ==
    stdioProc.phase = "exited" => \A i \in CallIds : ~RunsUnsignalled(i, "stdio")

(***************************************************************************)
(* C24: a call of the runner spawns once, whatever its outcome: in the     *)
(* step in which a call reports TimedOut, ProcessFailed or SpawnFailed no  *)
(* process is spawned, for that call or for its request, and the call's    *)
(* child is the one it began with; a child that has ended never runs       *)
(* again within its request.                                               *)
(***************************************************************************)
\* Call i reports a failure in this step.
ReportsFailure(i) ==
    /\ calls[i].promise.state = "pending"
    /\ calls'[i].promise.state = "rejected"

\* The child of a call that has been through spawn and has ended or failed.
Ended(c) == c.child \in {"errored", "closed"}

C24_NoRetry ==
    [][\A i \in CallIds :
           /\ ReportsFailure(i) =>
                  /\ LET e == calls'[i].promise.value
                     IN  IsTimedOut(e) \/ IsProcessFailed(e) \/ IsSpawnFailed(e)
                  /\ ncalls' = ncalls
                  /\ \A j \in CallIds \ {i} : calls'[j] = calls[j]
                  /\ calls'[i].argv = calls[i].argv
                  /\ calls'[i].child \in {calls[i].child, "errored", "closed"}
           /\ (nrequests' = nrequests /\ calls[i].promise.state = "rejected") =>
                  /\ ncalls' = ncalls
                  /\ Ended(calls[i]) => Ended(calls'[i])]_vars

\* A request that ended with one call, which had timed out, failed to spawn
\* or exited with a code other than 0.
C24_Witness ==
    /\ last.kind = "record"
    /\ last.spawns = 1
    /\ calls[1].promise.state = "rejected"
    /\ calls[1].child = "closed"
    /\ IsTimedOut(calls[1].promise.value)

(***************************************************************************)
(* C25: a dispatch that performs real work spawns exactly one process: no  *)
(* request has two calls of the runner made for it, while it is in flight  *)
(* or when it has been answered.                                           *)
(***************************************************************************)
C25_OneSpawnPerDispatch ==
    /\ inflight.kind = "dispatch" => ncalls = 1
    /\ last.kind = "record" => last.spawns <= 1

(***************************************************************************)
(* C26: for each of the eight tools that accept permissions, the argument  *)
(* vector handed to the child is the subcommand, then the option flags,    *)
(* then the mapped permission flags in their input order, then the         *)
(* positional arguments; nothing that comes from the permissions stands    *)
(* after a positional argument.                                            *)
(***************************************************************************)
\* "deno_run" -> "run"
Subcommand(tool) == SubSeq(tool, 6, Len(tool))

\* The path a script is run under.
ExpectedPath(script) ==
    IF StartsWith(script, "/") THEN script ELSE ProcessCwd \o "/" \o script

\* The positional arguments the request asks for.
ExpectedPositional(tool, options) ==
    CASE tool = "deno_run" ->
           <<ExpectedPath(Prop(options, "script").text)>> \o ElemsOr(Prop(options, "args"))
      [] tool \in {"deno_serve", "deno_compile"} ->
           <<ExpectedPath(Prop(options, "script").text)>>
      [] tool = "deno_install" -> <<Prop(options, "script").text>>
      [] tool = "deno_eval" -> <<Prop(options, "code").text>>
      [] tool \in {"deno_test", "deno_bench"} ->
           IF Prop(options, "pattern").kind = "string"
               THEN <<Prop(options, "pattern").text>> ELSE <<>>
      [] tool = "deno_repl" -> <<>>

\* Every element is an option flag or the value that follows one.
OptionFlagsOnly(words) ==
    \A k \in 1..Len(words) :
        StartsWith(words[k], "--") \/ (k > 1 /\ StartsWith(words[k - 1], "--"))

C26_VectorOrder ==
    bCommand.kind = "execute" =>
        LET argv        == bCommand.args
            permissions == ElemsOr(Prop(bOptions, "permissions"))
            positional  == ExpectedPositional(bTool, bOptions)
            n           == Len(argv)
            p           == Len(positional)
            m           == Len(permissions)
        IN  /\ n >= 1 + m + p
            /\ argv[1] = Subcommand(bTool)
            /\ OptionFlagsOnly(SubSeq(argv, 2, n - m - p))
            /\ \A k \in 1..m : argv[n - m - p + k] = ExpectedFlag(permissions[k])
            /\ SubSeq(argv, n - p + 1, n) = positional

\* deno_compile was given option flags, three permissions of different kinds
\* and a script.
C26_Witness ==
    /\ bCommand.kind = "execute"
    /\ bTool = "deno_compile"
    /\ ElemsOr(Prop(bOptions, "permissions")) = <<"read", "--allow-net", "x.ts">>
    /\ Len(bCommand.args) > 5
    /\ bCommand.args[Len(bCommand.args)] = "/cwd/main.ts"

(***************************************************************************)
(* C27: every stream of the wrapper on which connected has been written    *)
(* is eventually given its terminal event and closed, whatever arguments   *)
(* the caller supplied: a dispatch of the wrapper that is in flight        *)
(* eventually ends, and its record ends with complete or error.            *)
(***************************************************************************)
\* The wrapper has written connected and the stream is open.
StreamOpen ==
    /\ inflight.kind = "dispatch"
    /\ inflight.request.via = "wrapper"
    /\ Len(inflight.events) > 0
    /\ inflight.events[1] = "connected"

\* The stream of the last wrapper request was ended after a terminal event.
StreamEnded ==
    /\ inflight = NoRequest
    /\ last.kind = "record"
    /\ Len(last.events) > 0
    /\ last.events[Len(last.events)] \in {"complete", "error"}

C27_ClosedWhenTimed ==
    (StreamOpen /\ \A i \in 1..ncalls : calls[i].timer # "none" \/ calls[i].child # "running")
        ~> (StreamEnded \/ \E i \in 1..ncalls : calls[i].timer = "none" /\ calls[i].child = "running")

(***************************************************************************)
(* C28: once a call has settled because its child closed or could not be   *)
(* spawned, its timer has no further effect: the callback of the timer     *)
(* sends no signal, the promise keeps its outcome, no second outcome       *)
(* reaches the handler, and the request in flight and the last record are  *)
(* as they were.                                                           *)
(***************************************************************************)
\* The call settled on its close or error event and its child has ended.
SettledByChild(c) ==
    /\ c.promise.state # "pending"
    /\ ~(c.promise.state = "rejected" /\ IsTimedOut(c.promise.value))
    /\ c.child \in {"errored", "closed"}

\* The timer of call i runs in this step.
TimerRuns(i) == calls[i].timer = "armed" /\ calls'[i].timer = "fired"

C28_StaleTimerHarmless ==
    [][\A i \in CallIds :
           /\ (SettledByChild(calls[i]) /\ nrequests' = nrequests) =>
                  /\ calls'[i].promise = calls[i].promise
                  /\ calls'[i].delivered = calls[i].delivered
                  /\ ~calls'[i].sigterm
           /\ (SettledByChild(calls[i]) /\ TimerRuns(i)) =>
                  /\ inflight' = inflight
                  /\ last' = last
                  /\ ncalls' = ncalls]_vars

\* The timer of a call ran after the call had been fulfilled by its close
\* event.
C28_Witness ==
    /\ calls[1].timer = "fired"
    /\ calls[1].child = "closed"
    /\ calls[1].promise.state = "fulfilled"
    /\ Len(calls[1].delivered) = 1
    /\ ~calls[1].sigterm

(***************************************************************************)
(* C29: once gracefulShutdown of the wrapper has begun, no MCP child is    *)
(* spawned any more, not even by a restart timer that was set before: no   *)
(* step taken after the signal calls startMcpServer.                       *)
(***************************************************************************)
C29_NoSpawnDuringShutdown ==
    [][wrapperProc.phase # "running" => wrapperProc'.starts = wrapperProc.starts]_vars

(***************************************************************************)
(* C30: the wrapper's health flag is true only while its MCP child runs:   *)
(* in every state in which /health would answer 200, the child spawned     *)
(* last has not exited and gracefulShutdown has not begun.                 *)
(***************************************************************************)
\* handleHealthCheck would answer 200 "healthy" (src/unnamed/part_004:333).
AnswersHealthy == ProcessAlive("wrapper") /\ wrapperProc.healthy

C30_HealthyMeansRunning ==
    AnswersHealthy => wrapperProc.child = "running" /\ wrapperProc.phase = "running"

====
